---- MODULE Spec2Model ----
(***************************************************************************)
(* A model of slack-multireact: the slash command that saves or displays a *)
(* user's reaction list, the message shortcut that applies it, and the     *)
(* emoji cache of EmojiOperator with its background updater task.          *)
(*                                                                         *)
(* Text is a sequence of one-character strings, so that the regular        *)
(* expression of get_valid_reactions, " ".join and str.split are modelled  *)
(* by what they do to characters.                                          *)
(***************************************************************************)
EXTENDS Integers, Sequences, FiniteSets, TLC

\* ------------------------------------------------------------------------
\* Characters and text helpers
\* ------------------------------------------------------------------------

Lower == {"a","b","c","d","e","f","g","h","i","j","k","l","m",
          "n","o","p","q","r","s","t","u","v","w","x","y","z"}

Digit == {"0","1","2","3","4","5","6","7","8","9"}

\* the character class [a-z0-9-_\+'] of the regular expression
TokenChar == Lower \cup Digit \cup {"-", "_", "+", "'"}

\* the literal "::skin-tone-" of the optional group
SkinTonePrefix == <<":",":","s","k","i","n","-","t","o","n","e","-">>

\* does text t carry the characters of p from index i on
StartsWithAt(t, p, i) ==
    /\ i + Len(p) - 1 <= Len(t)
    /\ \A k \in 1..Len(p) : t[i + k - 1] = p[k]

\* first index >= i of t whose character is not in class, Len(t)+1 if none
RECURSIVE RunEnd(_, _, _)
RunEnd(t, class, i) ==
    IF i > Len(t) \/ t[i] \notin class THEN i ELSE RunEnd(t, class, i + 1)

\* a variant of ModifierEnd whose group takes any modifier: (?:::[a-z0-9-_\+']+)?:
ModifierEndAny(t, j) ==
    IF ~StartsWithAt(t, <<":",":">>, j) THEN 0
    ELSE LET e == RunEnd(t, TokenChar, j + 2)
         IN  IF e > j + 2 /\ e <= Len(t) /\ t[e] = ":" THEN e ELSE 0

\* (?:::skin\-tone\-\d+)?: tried at the colon at index j: the index of the
\* closing colon when the group and the colon after it match, 0 otherwise
ModifierEnd(t, j) ==
    IF ~StartsWithAt(t, SkinTonePrefix, j) THEN 0
    ELSE LET d == j + Len(SkinTonePrefix)
             e == RunEnd(t, Digit, d)
         IN  IF e > d /\ e <= Len(t) /\ t[e] = ":" THEN e ELSE 0

\* the index of the last character of the match of
\* :[a-z0-9-_\+']+(?:::skin\-tone\-\d+)?: that starts at index i, 0 if none
MatchEnd(t, i) ==
    IF t[i] # ":" THEN 0
    ELSE LET j == RunEnd(t, TokenChar, i + 1)
         IN  IF j = i + 1 \/ j > Len(t) \/ t[j] # ":" THEN 0
             ELSE LET m == ModifierEnd(t, j)
                  IN  IF m > 0 THEN m ELSE j

\* re.findall: the non-overlapping matches, left to right
RECURSIVE FindAllFrom(_, _)
FindAllFrom(t, i) ==
    IF i > Len(t) THEN <<>>
    ELSE LET e == MatchEnd(t, i)
         IN  IF e = 0 THEN FindAllFrom(t, i + 1)
             ELSE <<SubSeq(t, i, e)>> \o FindAllFrom(t, e + 1)

FindAll(t) == FindAllFrom(t, 1)

Elems(s) == {s[k] : k \in 1..Len(s)}

\* a variant of FromKeys that keeps the last occurrence of every element
RECURSIVE FromKeysLast(_)
FromKeysLast(xs) ==
    IF xs = <<>> THEN <<>>
    ELSE LET rest == FromKeysLast(Tail(xs))
         IN  IF xs[1] \in {rest[k] : k \in 1..Len(rest)} THEN rest ELSE <<xs[1]>> \o rest

\* list(dict.fromkeys(xs)): the first occurrence of every element is kept
RECURSIVE FromKeys(_)
FromKeys(xs) ==
    IF xs = <<>> THEN <<>>
    ELSE LET init == FromKeys(SubSeq(xs, 1, Len(xs) - 1))
             last == xs[Len(xs)]
         IN  IF last \in Elems(init) THEN init ELSE Append(init, last)

\* r[1:-1]
StripColons(r) == SubSeq(r, 2, Len(r) - 1)

\* [x for x in xs if x in keep]
RECURSIVE Keep(_, _)
Keep(xs, keep) ==
    IF xs = <<>> THEN <<>>
    ELSE IF xs[1] \in keep THEN <<xs[1]>> \o Keep(Tail(xs), keep)
         ELSE Keep(Tail(xs), keep)

\* r.find("::"): the 0-based index of the first "::" in r, -1 if none
RECURSIVE FindSepFrom(_, _)
FindSepFrom(r, i) ==
    IF i + 1 > Len(r) THEN -1
    ELSE IF r[i] = ":" /\ r[i + 1] = ":" THEN i - 1
         ELSE FindSepFrom(r, i + 1)

FindSep(r) == FindSepFrom(r, 1)

\* "::" in reaction
HasModifier(r) == FindSep(r) >= 0

\* r[:r.find("::")]
BaseName(r) == SubSeq(r, 1, FindSep(r))

\* a variant of Join that puts nothing between the elements
RECURSIVE JoinTight(_)
JoinTight(xs) ==
    IF xs = <<>> THEN <<>> ELSE xs[1] \o JoinTight(Tail(xs))

\* " ".join(xs)
RECURSIVE Join(_)
Join(xs) ==
    IF xs = <<>> THEN <<>>
    ELSE IF Len(xs) = 1 THEN xs[1]
         ELSE xs[1] \o <<" ">> \o Join(Tail(xs))

\* s.split(" "): every single space separates, empty pieces are kept
RECURSIVE SplitFrom(_, _, _)
SplitFrom(s, i, cur) ==
    IF i > Len(s) THEN <<cur>>
    ELSE IF s[i] = " " THEN <<cur>> \o SplitFrom(s, i + 1, <<>>)
         ELSE SplitFrom(s, i + 1, Append(cur, s[i]))

Split(s) == SplitFrom(s, 1, <<>>)

\* the characters str.strip() removes, as far as the texts here have them
Whitespace == {" ", "\t", "\n"}

\* a variant of NonBlank that does not strip: the text is non-empty
NonBlankUnstripped(s) == s # <<>>

\* s.strip() is non-empty: some character is not whitespace
NonBlank(s) == \E k \in 1..Len(s) : s[k] \notin Whitespace

\* f":{r}:"
Wrap(r) == <<":">> \o r \o <<":">>

\* " ".join([f":{r}:" for r in reactions.split(" ")])
Render(stored) ==
    LET parts == Split(stored)
    IN  Join([k \in 1..Len(parts) |-> Wrap(parts[k])])


\* ------------------------------------------------------------------------
\* Pure helpers of internals.py and handlers.py
\* ------------------------------------------------------------------------

\* Python's None
None == "None"

\* the reaction limit of the save branch
MaxReactions == 23

\* a variant of user_data_key that puts nothing between enterprise and team
user_data_keyNoDash(slack_client_id, enterprise_id, team_id, user_id) ==
    IF enterprise_id # None /\ enterprise_id # ""
    THEN slack_client_id \o "/" \o enterprise_id \o team_id \o "/" \o user_id
    ELSE slack_client_id \o "/none" \o team_id \o "/" \o user_id

\* user_data_key: the blob name of a user's reaction list
user_data_key(slack_client_id, enterprise_id, team_id, user_id) ==
    IF enterprise_id # None /\ enterprise_id # ""
    THEN slack_client_id \o "/" \o enterprise_id \o "-" \o team_id \o "/" \o user_id
    ELSE slack_client_id \o "/none-" \o team_id \o "/" \o user_id

\* the candidates of get_valid_reactions: findall, dict.fromkeys, r[1:-1]
ParseReactions(text) ==
    LET found == FromKeys(FindAll(text))
    IN  [k \in 1..Len(found) |-> StripColons(found[k])]

\* a variant of ValidReactions that looks up the whole code, modifier and all
ValidReactionsWholeCode(reactions, all) == Keep(reactions, all)

\* the validation of get_valid_reactions against a list of emojis
ValidReactions(reactions, all) ==
    LET simple   == {r \in Elems(reactions) : ~HasModifier(r)}
        modified == {r \in Elems(reactions) : HasModifier(r)}
        valid    == {r \in simple : r \in all}
                        \cup {r \in modified : BaseName(r) \in all}
    IN  Keep(reactions, valid)

\* a variant of TooMany that lets one more reaction through
TooManyOffByOne(reactions) == Len(reactions) > MaxReactions + 1

\* the first test of the save branch: more reactions than Slack allows
TooMany(reactions) == Len(reactions) > MaxReactions

\* a variant of NoneValid that never rejects
NoneValidNever(reactions) == FALSE

\* the second test of the save branch: nothing valid in the text
NoneValid(reactions) == Len(reactions) = 0

\* what the save branch uploads: " ".join(reactions)
StoredForm(reactions) == Join(reactions)

\* a variant of ToReact that ignores the reactions already used
ToReactNoDiff(reactions, used_reactions) == reactions

\* the ordered difference of add_reactions:
\* to_react = list(set(reactions) - set(used_reactions)), put back in order
ToReact(reactions, used_reactions) ==
    Keep(reactions, Elems(reactions) \ Elems(used_reactions))

\* [r["name"] for r in holder["reactions"] if user_id in r["users"]]
RECURSIVE NamesOf(_, _)
NamesOf(rs, user_id) ==
    IF rs = <<>> THEN <<>>
    ELSE IF user_id \in rs[1].users
         THEN <<rs[1].name>> \o NamesOf(Tail(rs), user_id)
         ELSE NamesOf(Tail(rs), user_id)

\* one of the three holders of a reactions.get response
ReactionNames(holder, user_id) ==
    IF "reactions" \in DOMAIN holder THEN NamesOf(holder.reactions, user_id)
    ELSE <<>>

\* a variant of get_user_reactions that knows messages only
get_user_reactionsMessageOnly(response, user_id) ==
    IF response.type = "message" THEN ReactionNames(response.message, user_id)
    ELSE <<>>

\* a variant of get_user_reactions that finds no reaction of the user
get_user_reactionsNone(response, user_id) == <<>>

\* get_user_reactions, after the response of reactions.get arrived
get_user_reactions(response, user_id) ==
    IF response.type = "message" THEN ReactionNames(response.message, user_id)
    ELSE IF response.type = "file" THEN ReactionNames(response.file, user_id)
    ELSE IF response.type = "file_comment" THEN ReactionNames(response.comment, user_id)
    ELSE <<>>

\* the pause after every reactions.add call, in seconds
Tier3Pause == (50 + 5) \div 60

\* ------------------------------------------------------------------------
\* The world of the model: users, tokens, the workspace's emojis, the texts
\* ------------------------------------------------------------------------

\* the bound on updater tasks alive at once
MaxTasks == 2

\* the bound on reactions.add calls of one shortcut that Slack answers with
\* an error other than already_reacted
MaxAddErrors == 1

Users == {"U1", "U2"}

Slots == {"r1", "r2"}

TaskIds == 1..MaxTasks

\* the value of EmojiOperator._emoji_task while it refers to no task
NoTask == 0

\* the bot token the framework puts on the client of a request
BotToken == "xoxb"

\* context.user_token of a request of user u
UserToken(u) == "xoxp-" \o u

\* the user a token acts for, None for the bot token or no token
TokenOwner(token) ==
    IF \E u \in Users : UserToken(u) = token
    THEN CHOOSE u \in Users : UserToken(u) = token
    ELSE None

SlackClientId == "cid"

TeamId == "T1"

\* the enterprise id the payloads of user u carry, None when they carry none
EnterpriseOf(u) == IF u = "U2" THEN "E1" ELSE None

\* the key both handlers compute for the requesting user
KeyOf(u) == user_data_key(SlackClientId, EnterpriseOf(u), TeamId, u)

Letters == <<"a","b","c","d","e","f","g","h","i","j","k","l",
             "m","n","o","p","q","r","s","t","u","v","w","x">>

\* the response of emoji.list(include_categories=True)
EmojiListResponse ==
    [emoji      |-> {<<Letters[k]>> : k \in 1..4},
     categories |-> << [name |-> "Smileys",
                        emoji_names |-> [k \in 1..12 |-> <<Letters[k + 4]>>]],
                       [name |-> "Objects",
                        emoji_names |-> [k \in 1..7 |-> <<Letters[k + 16]>>]] >>]

\* the "base" names of the emojidex directory
StandardEmojis == {<<"x">>, <<"a">>}

\* how one run of _get_reactions_in_team can end: emoji.list raises a
\* SlackApiError, or it answers and the GET of the emojidex directory ends
\* with a status, a connection error or a timeout
FetchOutcomes ==
    { [emoji_list |-> "SlackApiError", kind |-> "none", status |-> 0],
      [emoji_list |-> "ok", kind |-> "response", status |-> 200],
      [emoji_list |-> "ok", kind |-> "response", status |-> 503],
      [emoji_list |-> "ok", kind |-> "ClientConnectorError", status |-> 0],
      [emoji_list |-> "ok", kind |-> "TimeoutError", status |-> 0] }

\* how one reactions.add call can end: success, or a SlackApiError whose
\* error is already_reacted or another one
AddOutcomes == {"ok", "already_reacted", "error"}

\* the texts users type: ":a::b: ... :" with the first n letters
RECURSIVE ColonText(_)
ColonText(n) ==
    IF n = 0 THEN <<>> ELSE ColonText(n - 1) \o <<":", Letters[n], ":">>

TextA == <<":","a",":">>

TextAB == <<":","a",":"," ",":","b",":">>

\* parses to b, zz, a::skin-tone-2, a
TextMixed ==
    <<":","b",":",":","z","z",":",":","a",":",":","s","k","i","n","-",
      "t","o","n","e","-","2",":",":","a",":",":","b",":">>

TextUnknown == <<":","z","z",":">>

\* x is a standard emoji only, a is a custom emoji too
TextXA == <<":","x",":",":","a",":">>

TextPlain == <<"h","i">>

TextBlank == <<" ">>

\* whitespace of several kinds, and a short-code between whitespace
TextWhite == <<" ", "\t", "\n">>

TextPadded == <<" ", ":", "a", ":", "\n">>

\* [emj for cat in response["categories"] for emj in cat["emoji_names"]]
RECURSIVE BuiltinEmojis(_)
BuiltinEmojis(categories) ==
    IF categories = <<>> THEN {}
    ELSE Elems(categories[1].emoji_names) \cup BuiltinEmojis(Tail(categories))

\* a variant of get_reactions_in_team that returns before the category and
\* the standard emojis are added
get_reactions_in_teamCustomOnly(response, http) == response.emoji

\* _get_reactions_in_team once emoji.list answered and the GET ended without
\* an exception that escapes: list(set(custom + builtin + standard))
get_reactions_in_team(response, http) ==
    LET custom_emojis   == response.emoji
        builtin_emojis  == BuiltinEmojis(response.categories)
        standard_emojis == IF http.kind = "response" /\ http.status = 200
                           THEN StandardEmojis ELSE {}
    IN  custom_emojis \cup builtin_emojis \cup standard_emojis

\* does emoji.list raise
ListRaises(out) == out.emoji_list = "SlackApiError"

\* does the exception of the GET escape _get_reactions_in_team: only
\* ClientConnectorError and ClientResponseError are caught there
HttpRaises(out) ==
    /\ out.emoji_list = "ok"
    /\ out.kind \notin {"response", "ClientConnectorError", "ClientResponseError"}

\* ------------------------------------------------------------------------
\* State
\* ------------------------------------------------------------------------

VARIABLES
    cfg,         \* the run's slots, users, texts and call outcomes
    bucket,      \* the user data bucket: blob name -> stored text
    reacted,     \* Slack: user -> names of the user's reactions on the item
    all_emojis,  \* EmojiOperator._all_emojis
    emoji_task,  \* EmojiOperator._emoji_task: a task id or NoTask
    tasks,       \* the updater tasks: id -> [pc, token, old_token] and, as a
                 \* record of what happened, slept (60 s of sleep are over),
                 \* last (how its last fetch ended), ended (how it ended)
    app_token,   \* app.client.token
    req,         \* the requests in flight: slot -> frame of its handler
    accepted,    \* user -> <<the list of the user's last accepted save>>
    history,     \* the age of the cache, the emoji.list calls of the last
                 \* 60 seconds and the result of the last completed fetch
    call,        \* the last application of the parser or of the validator
    revocation,  \* the last tokens_revoked event handled and whether its
                 \* handler raised; turn changes with every event handled
    state_store, \* the OAuth state bucket, the clock and the last consume
    installation_store  \* the installation bucket, the deletions scheduled
                 \* on the event loop and what the caller found

vars == <<cfg, bucket, reacted, all_emojis, emoji_task, tasks, app_token,
          req, accepted, history, call, revocation, state_store,
          installation_store>>

Event(op, arg, token, res) == [op |-> op, arg |-> arg, token |-> token, res |-> res]

IdleFrame ==
    [kind |-> "idle", pc |-> "idle", user |-> None, has_text |-> FALSE,
     text |-> <<>>, token |-> None, reactions |-> <<>>, used |-> <<>>,
     to_react |-> <<>>, i |-> 0, trace |-> <<>>,
     before |-> <<>>, after |-> <<>>, last |-> <<>>, had |-> {},
     had_cache |-> FALSE, stale_then |-> FALSE, fetched |-> <<>>,
     pauses |-> <<>>]

\* The fields of a frame: kind, pc, user, has_text, text are the request
\* and the handler's position; token is client.token of the client the
\* handler was handed; reactions, used, to_react, i are the handler's
\* locals; trace lists the calls the handler made, in order. The others
\* record what the handler met: before and after are the user's blob
\* before and after the handler's last step that touches the bucket, last
\* is the user's last accepted save when the reply was made, had is the
\* set of the user's reactions on the item when reactions.get answered,
\* had_cache and stale_then tell whether _all_emojis held emojis, and
\* whether they were older than 60 seconds, when get_valid_reactions chose
\* between fetching and using them, fetched is <<the list the fetch of
\* this call returned>>, pauses lists the seconds the handler slept after
\* each of its reactions.add calls.

\* the blob of a key as seen by exists(): <<>> when absent, <<text>> otherwise
Stored(b, key) == IF key \in DOMAIN b THEN <<b[key]>> ELSE <<>>

\* a variant of Upload that appends to the text already stored
UploadMerging(b, key, text) ==
    [k \in DOMAIN b \cup {key} |->
        IF k # key THEN b[k]
        ELSE IF key \in DOMAIN b THEN b[key] \o <<" ">> \o text ELSE text]

\* blob.upload_from_string
Upload(b, key, text) == [k \in DOMAIN b \cup {key} |-> IF k = key THEN text ELSE b[k]]

Finished(s) == req[s].pc \in {"idle", "done", "raised"}

\* the test of handlers.py:105: the command is a save
IsSave(has_text, text) == has_text /\ NonBlank(text)

\* a variant of NoCandidates that never returns early
NoCandidatesNever(reactions) == FALSE

\* if not reactions: return [] (internals.py:141-142)
NoCandidates(reactions) == reactions = <<>>

\* a variant of NeedsFetch that does not look at done()
NeedsFetchFirstOnly == emoji_task = NoTask

\* the test of internals.py:154: no updater task, or the task has ended
NeedsFetch == emoji_task = NoTask \/ tasks[emoji_task].pc = "done"

AliveTasks == {t \in DOMAIN tasks : tasks[t].pc # "done"}

SavesInFlight ==
    {s \in Slots : /\ req[s].kind = "command"
                       /\ ~Finished(s)
                       /\ IsSave(req[s].has_text, req[s].text)}

\* the model admits a save only while a task id is left for its updater
TaskRoom == Cardinality(AliveTasks) + Cardinality(SavesInFlight) < MaxTasks

\* the tasks after task t ended, cancelled or by an exception: an ended
\* task lives on only while EmojiOperator refers to it
EndTask(ts, t, ref, how) ==
    IF t = ref THEN [ts EXCEPT ![t].pc = "done", ![t].ended = how]
    ELSE [k \in DOMAIN ts \ {t} |-> ts[k]]

\* asyncio.create_task(self._update_emoji_list(app, client.token, logger))
\* and the assignment to self._emoji_task
NewTaskId(ts, ref) ==
    LET kept == DOMAIN ts \ (IF ref # NoTask /\ ts[ref].pc = "done" THEN {ref} ELSE {})
    IN  CHOOSE t \in TaskIds \ kept : \A o \in TaskIds \ kept : t <= o

CreateTask(ts, ref, token) ==
    LET kept == DOMAIN ts \ (IF ref # NoTask /\ ts[ref].pc = "done" THEN {ref} ELSE {})
        id   == NewTaskId(ts, ref)
    IN  [k \in kept \cup {id} |->
            IF k = id
            THEN [pc |-> "sleep", token |-> token, old_token |-> None,
                  slept |-> FALSE, ended |-> "", last |-> ""]
            ELSE ts[k]]

\* a variant of CacheDuringFetch that empties the list before the fetch
CacheCleared(all) == {}

\* self._all_emojis while _get_reactions_in_team is awaited: the assignment
\* happens when the call returns, until then the list is the old one
CacheDuringFetch(all) == all

\* the record of time: emoji.list is called
ListCalled(h) ==
    IF cfg.clock
    THEN [h EXCEPT !.list_called = TRUE, !.list_repeated = h.list_called]
    ELSE h

\* the record of time: a fetch completed and its result was assigned
Fetched(h, result) == [h EXCEPT !.stale = FALSE, !.last_fetch = result]

\* the name of the way a fetch ended
OutcomeName(out) ==
    IF out.emoji_list # "ok" THEN out.emoji_list
    ELSE IF out.kind # "response" THEN out.kind
    ELSE IF out.status = 200 THEN "ok" ELSE "bad_status"

\* the response of reactions.get for the item
RECURSIVE SetToSeq(_)
SetToSeq(S) ==
    IF S = {} THEN <<>>
    ELSE LET x == CHOOSE y \in S : TRUE IN <<x>> \o SetToSeq(S \ {x})

ItemReactions(r) ==
    LET names == UNION {r[u] : u \in Users}
        order == SetToSeq(names)
    IN  [k \in 1..Len(order) |->
            [name |-> order[k], users |-> {u \in Users : order[k] \in r[u]}]]

ReactionsGetResponse(r) ==
    IF ItemReactions(r) = <<>>
    THEN [type |-> "message", message |-> [ts |-> "12345"]]
    ELSE [type |-> "message",
          message |-> [ts |-> "12345", reactions |-> ItemReactions(r)]]

\* ------------------------------------------------------------------------
\* Initial states
\* ------------------------------------------------------------------------

\* the outcomes of a fetch that differ in what the callers do: emoji.list
\* raises, the fetch returns all emojis, an exception of the GET escapes
MainOutcomes ==
    {out \in FetchOutcomes : OutcomeName(out) \in {"SlackApiError", "ok", "TimeoutError"}}

\* no tokens_revoked event handled yet
NoRevocation ==
    [turn |-> FALSE, enterprise_id |-> None, team_id |-> None,
     has_oauth |-> FALSE, oauth |-> <<>>, raised |-> FALSE]

\* no application of the parser or the validator yet
NoCall == [op |-> "none", text |-> <<>>, candidates |-> <<>>, snapshot |-> {},
           result |-> <<>>]

\* the OAuth state bucket is empty at time 0; issued, accepted and twice
\* record the states issued so far with their creation times, the states
\* consume has returned True for, and whether it did so a second time; last
\* is the last consume (none yet): turn changes with every consume, held
\* tells whether the state's blob was in the bucket when it started
NoStates ==
    [blobs |-> << >>, now |-> 0, advances |-> 0, issued |-> << >>,
     accepted |-> {}, twice |-> FALSE,
     last |-> [turn |-> FALSE, state |-> None, at |-> 0, outcome |-> "ok",
               held |-> FALSE, result |-> FALSE, raised |-> FALSE]]

\* no caller of the installation store yet
NoCaller == [pc |-> "idle", via |-> None, enterprise_id |-> None, team_id |-> None,
             is_enterprise_install |-> FALSE, bot |-> None, installation |-> None]

\* the installation bucket is empty and the event loop has nothing scheduled
NoInstallations == [blobs |-> {}, scheduled |-> {}, caller |-> NoCaller]

InitWith(c) ==
    /\ cfg = c
    /\ bucket = << >>
    /\ reacted = [u \in Users |-> {}]
    /\ all_emojis = {}
    /\ emoji_task = NoTask
    /\ tasks = << >>
    /\ app_token = None
    /\ req = [s \in Slots |-> IdleFrame]
    /\ accepted = [u \in Users |-> <<>>]
    /\ history = [stale |-> FALSE, list_called |-> FALSE,
                  list_repeated |-> FALSE, last_fetch |-> {}]
    /\ call = NoCall
    /\ revocation = NoRevocation
    /\ state_store = NoStates
    /\ installation_store = NoInstallations

\* two users, a slot for commands and shortcuts and a slot for shortcuts
Init ==
    InitWith([command_slots |-> {"r1"}, shortcut_slots |-> Slots,
              users |-> Users, texts |-> {TextAB},
              fetches |-> MainOutcomes, add_results |-> AddOutcomes, clock |-> FALSE])

\* no Slack request: the functions on their own, and the OAuth stores
InitPure ==
    InitWith([command_slots |-> {}, shortcut_slots |-> {}, users |-> {},
              texts |-> {}, fetches |-> {}, add_results |-> {}, clock |-> FALSE])

\* two users, one request at a time, every kind of short text
InitSeq ==
    InitWith([command_slots |-> {"r1"}, shortcut_slots |-> {"r1"},
              users |-> Users,
              texts |-> {TextAB, TextMixed, TextUnknown, TextPlain, TextBlank},
              fetches |-> MainOutcomes, add_results |-> AddOutcomes, clock |-> FALSE])

\* one user, one request at a time, time passes
InitCache ==
    InitWith([command_slots |-> {"r1"}, shortcut_slots |-> {"r1"},
              users |-> {"U1"}, texts |-> {TextA, TextUnknown},
              fetches |-> FetchOutcomes, add_results |-> {"ok"}, clock |-> TRUE])

\* one user, two saves at a time
InitRace ==
    InitWith([command_slots |-> Slots, shortcut_slots |-> {"r2"},
              users |-> {"U1"}, texts |-> {TextA},
              fetches |-> MainOutcomes, add_results |-> {"ok"}, clock |-> FALSE])

\* one user, one request at a time, texts that are empty, blank and padded
InitText ==
    InitWith([command_slots |-> {"r1"}, shortcut_slots |-> {"r1"},
              users |-> {"U1"},
              texts |-> {<<>>, TextBlank, TextWhite, TextPadded, TextUnknown, TextPlain},
              fetches |-> MainOutcomes, add_results |-> {"ok"}, clock |-> FALSE])

\* one user, two saves at a time; emoji.list raises or answers, and the GET
\* of the standard emojis ends with status 503 or 200
InitRefresh ==
    InitWith([command_slots |-> Slots, shortcut_slots |-> {},
              users |-> {"U1"}, texts |-> {TextXA},
              fetches |-> {out \in FetchOutcomes :
                              OutcomeName(out) \in {"SlackApiError", "bad_status", "ok"}},
              add_results |-> {"ok"}, clock |-> FALSE])

\* two users, one request at a time, tokens are revoked
InitRevoke ==
    InitWith([command_slots |-> {"r1"}, shortcut_slots |-> {"r1"},
              users |-> Users, texts |-> {TextA, TextUnknown},
              fetches |-> {out \in FetchOutcomes : OutcomeName(out) = "ok"},
              add_results |-> AddOutcomes, clock |-> FALSE])

\* one user, one request at a time, a list of 2 and a list of 23 reactions,
\* reactions.add calls that succeed or fail
InitApply ==
    InitWith([command_slots |-> {"r1"}, shortcut_slots |-> {"r1"},
              users |-> {"U1"}, texts |-> {TextAB, ColonText(MaxReactions)},
              fetches |-> {out \in FetchOutcomes : OutcomeName(out) = "ok"},
              add_results |-> AddOutcomes, clock |-> FALSE])

\* one user, one request at a time, texts around the limit of 23 reactions
\* and with repeated short-codes, tokens are revoked
InitStore ==
    InitWith([command_slots |-> {"r1"}, shortcut_slots |-> {"r1"},
              users |-> {"U1"},
              texts |-> {ColonText(MaxReactions), ColonText(MaxReactions + 1),
                         TextMixed, TextUnknown},
              fetches |-> {out \in FetchOutcomes :
                              OutcomeName(out) \in {"bad_status", "ok"}},
              add_results |-> {"ok"}, clock |-> FALSE])

\* one user, one request at a time, texts around the limit of 23 reactions,
\* every reactions.add call succeeds
InitLimit ==
    InitWith([command_slots |-> {"r1"}, shortcut_slots |-> {"r1"},
              users |-> {"U1"},
              texts |-> {ColonText(MaxReactions), ColonText(MaxReactions + 1),
                         TextUnknown, TextPlain},
              fetches |-> FetchOutcomes, add_results |-> {"ok"}, clock |-> FALSE])

\* ------------------------------------------------------------------------
\* save_or_display_reactions (the slash command)
\* ------------------------------------------------------------------------

\* a variant of CommandAck that does not acknowledge
CommandAckMissing(trace) == trace

\* await ack(), the first statement of the command handler
CommandAck(trace) == Append(trace, Event("ack", <<>>, "", "ok"))

\* the branch the save takes on the validated list
SaveBranch(reactions) ==
    IF TooMany(reactions) THEN "too_many"
    ELSE IF NoneValid(reactions) THEN "invalid"
    ELSE "saved"

\* a variant of SaveWrites that uploads on every branch
SaveWritesAlways(branch) == TRUE

\* does the branch upload the list
SaveWrites(branch) == branch = "saved"

\* a command arrives; the handler runs to its first await. The client is
\* the one of this request: the app is built with oauth_settings and no
\* token (handlers.py:47), so every request gets a client of its own, which
\* carries the bot token of the installation; app.client is another object
ReceiveCommand(s, u, has_text, text) ==
    /\ Finished(s)
    /\ IsSave(has_text, text) => TaskRoom
    /\ req' = [req EXCEPT ![s] =
                 [IdleFrame EXCEPT !.kind = "command", !.pc = "acked",
                                   !.user = u, !.has_text = has_text,
                                   !.text = text, !.token = BotToken,
                                   !.trace = CommandAck(<<>>)]]
    /\ UNCHANGED <<cfg, state_store, installation_store, revocation, call, history, bucket, reacted, all_emojis, emoji_task, tasks,
                   app_token, accepted>>

\* handlers.py:108-126 on the list get_valid_reactions returned
SaveDecision(s, reactions, trace, had_cache, stale_then, fetched) ==
    LET r      == req[s]
        key    == KeyOf(r.user)
        branch == SaveBranch(reactions)
        text   == StoredForm(reactions)
        nb     == IF SaveWrites(branch) THEN Upload(bucket, key, text) ELSE bucket
        tr     == IF SaveWrites(branch)
                  THEN Append(trace, Event("upload", text, "", "ok"))
                  ELSE trace
    IN  /\ bucket' = nb
        /\ accepted' = IF SaveWrites(branch)
                       THEN [accepted EXCEPT ![r.user] = <<reactions>>]
                       ELSE accepted
        /\ req' = [req EXCEPT ![s] =
                     [r EXCEPT !.pc = "done", !.reactions = reactions,
                               !.trace = Append(tr, Event("respond", <<>>, "", branch)),
                               !.had_cache = had_cache,
                               !.stale_then = stale_then,
                               !.fetched = fetched,
                               !.before = Stored(bucket, key),
                               !.after = Stored(nb, key)]]

\* handlers.py:129-139: reply with the stored list, or that none is set
Display(s) ==
    LET r   == req[s]
        key == KeyOf(r.user)
        tr  == IF key \in DOMAIN bucket
               THEN r.trace \o << Event("exists", <<>>, "", "true"),
                                  Event("download", bucket[key], "", "ok"),
                                  Event("respond", Render(bucket[key]), "", "current") >>
               ELSE r.trace \o << Event("exists", <<>>, "", "false"),
                                  Event("respond", <<>>, "", "none_set") >>
    IN  /\ req' = [req EXCEPT ![s] =
                     [r EXCEPT !.pc = "done", !.trace = tr,
                               !.before = Stored(bucket, key),
                               !.after = Stored(bucket, key),
                               !.last = accepted[r.user]]]
        /\ UNCHANGED <<bucket, accepted>>

\* the handler after ack: a display; a save whose text holds no reaction or
\* that validates against the cached emojis; or a save that first fetches
\* (get_valid_reactions runs as internals.py:120 defines it and the test of
\* the handler calls it, on the EmojiOperator instance with text, client,
\* app and logger; handlers.py:107 still passes text, client and logger)
CommandBody(s) ==
    LET r == req[s] IN
    /\ r.kind = "command" /\ r.pc = "acked"
    /\ IF ~IsSave(r.has_text, r.text)
       THEN Display(s) /\ UNCHANGED <<all_emojis, history>>
       ELSE IF NoCandidates(ParseReactions(r.text))
       THEN /\ SaveDecision(s, <<>>, r.trace, FALSE, FALSE, <<>>)
            /\ UNCHANGED <<all_emojis, history>>
       ELSE IF NeedsFetch
       THEN /\ req' = [req EXCEPT ![s] =
                         [r EXCEPT !.pc = "fetch",
                                   !.had_cache = all_emojis # {},
                                   !.stale_then = history.stale,
                                   !.trace = Append(r.trace,
                                       Event("emoji_list", <<>>, r.token, ""))]]
            /\ all_emojis' = CacheDuringFetch(all_emojis)
            /\ history' = ListCalled(history)
            /\ UNCHANGED <<bucket, accepted>>
       ELSE /\ SaveDecision(s, ValidReactions(ParseReactions(r.text), all_emojis),
                            r.trace, all_emojis # {}, history.stale, <<>>)
            /\ UNCHANGED <<all_emojis, history>>
    /\ UNCHANGED <<cfg, state_store, installation_store, revocation, call, reacted, emoji_task, tasks, app_token>>

\* a variant of Propagates that swallows the error of emoji.list
PropagatesOnlyHttp(out) == HttpRaises(out)

\* does the exception of a fetch leave _get_reactions_in_team, and with it
\* get_valid_reactions and the handler, none of which catches it
Propagates(out) == ListRaises(out) \/ HttpRaises(out)

\* _get_reactions_in_team returns to the save: the cache is replaced, the
\* updater task is created, the candidates are validated and the save is
\* decided (internals.py:155-164); an exception leaves the handler
CommandFetched(s, out) ==
    LET r  == req[s]
        tr == [r.trace EXCEPT ![Len(r.trace)].res = OutcomeName(out)]
    IN
    /\ r.kind = "command" /\ r.pc = "fetch"
    /\ IF Propagates(out)
       THEN /\ req' = [req EXCEPT ![s] = [r EXCEPT !.pc = "raised", !.trace = tr]]
            /\ UNCHANGED <<bucket, accepted, all_emojis, emoji_task, tasks, history>>
       ELSE /\ all_emojis' = get_reactions_in_team(EmojiListResponse, out)
            /\ history' = Fetched(history, all_emojis')
            /\ tasks' = CreateTask(tasks, emoji_task, r.token)
            /\ emoji_task' = NewTaskId(tasks, emoji_task)
            /\ SaveDecision(s, ValidReactions(ParseReactions(r.text), all_emojis'),
                            tr, r.had_cache, r.stale_then, <<all_emojis'>>)
    /\ UNCHANGED <<cfg, state_store, installation_store, revocation, call, reacted, app_token>>

\* ------------------------------------------------------------------------
\* add_reactions (the message shortcut)
\* ------------------------------------------------------------------------

\* await ack(), the first statement of the shortcut handler
ShortcutAck(trace) == Append(trace, Event("ack", <<>>, "", "ok"))

\* a variant of SwitchToken that leaves the client's token alone
SwitchTokenForgotten(client_token, user_token) == client_token

\* client.token = context.user_token
SwitchToken(client_token, user_token) == user_token

\* a variant of HasReactions that takes every read for a list
HasReactionsAlways(stored) == TRUE

\* if reactions: a list was read and it is not the empty string (stored is
\* <<>> for both None and "")
HasReactions(stored) == stored # <<>>

\* a variant of Caught that lets the already_reacted error through
CaughtOnlyOthers(res) == res = "error"

\* a variant of Caught that swallows only the duplicate reaction
CaughtOnlyDuplicates(res) == res = "already_reacted"

\* except SlackApiError: the error of one reactions.add call is caught
Caught(res) == res \in {"already_reacted", "error"}

\* a variant of TokenAtExit that puts the client's first token back
TokenRestored(token, old_token) == old_token

\* client.token when add_reactions returns: the finally clause of the loop
\* only sleeps, nothing assigns client.token after handlers.py:183
TokenAtExit(token, old_token) == token

\* a shortcut arrives; the handler runs to its first await
ReceiveShortcut(s, u) ==
    /\ Finished(s)
    /\ req' = [req EXCEPT ![s] =
                 [IdleFrame EXCEPT !.kind = "shortcut", !.pc = "acked",
                                   !.user = u, !.token = BotToken,
                                   !.trace = ShortcutAck(<<>>)]]
    /\ UNCHANGED <<cfg, state_store, installation_store, revocation, call, history, bucket, reacted, all_emojis, emoji_task, tasks,
                   app_token, accepted>>

\* a variant of IssueAdd that issues call i and the call after it together
IssueAddBurst(r, to_react, i, trace) ==
    IF i < Len(to_react)
    THEN [r EXCEPT !.pc = "reactions_add", !.to_react = to_react, !.i = i + 1,
                   !.trace = trace \o
                       << Event("reactions_add", to_react[i], r.token, "pending"),
                          Event("reactions_add", to_react[i + 1], r.token, "pending") >>]
    ELSE IF i = Len(to_react)
    THEN [r EXCEPT !.pc = "reactions_add", !.to_react = to_react, !.i = i,
                   !.trace = Append(trace,
                       Event("reactions_add", to_react[i], r.token, "pending"))]
    ELSE [r EXCEPT !.pc = "done", !.to_react = to_react, !.i = i, !.trace = trace]

\* the frame once call i of to_react is issued, or the loop is over
IssueAdd(r, to_react, i, trace) ==
    IF i <= Len(to_react)
    THEN [r EXCEPT !.pc = "reactions_add", !.to_react = to_react, !.i = i,
                   !.trace = Append(trace,
                       Event("reactions_add", to_react[i], r.token, "pending"))]
    ELSE [r EXCEPT !.pc = "done", !.to_react = to_react, !.i = i, !.trace = trace,
                   !.token = TokenAtExit(r.token, BotToken)]

\* handlers.py:165-185 and 205-230: read the list; switch the token and
\* query the item's reactions, or open the dialog when no list is stored
ShortcutBody(s) ==
    LET r      == req[s]
        key    == KeyOf(r.user)
        exists == key \in DOMAIN bucket
        stored == IF exists THEN bucket[key] ELSE <<>>
        read   == IF exists
                  THEN r.trace \o << Event("exists", <<>>, "", "true"),
                                     Event("download", stored, "", "ok") >>
                  ELSE Append(r.trace, Event("exists", <<>>, "", "false"))
        token  == SwitchToken(r.token, UserToken(r.user))
    IN
    /\ r.kind = "shortcut" /\ r.pc = "acked"
    /\ req' = [req EXCEPT ![s] =
                 IF HasReactions(stored)
                 THEN [r EXCEPT !.pc = "reactions_get", !.token = token,
                                !.reactions = Split(stored),
                                !.before = Stored(bucket, key),
                                !.trace = Append(read,
                                    Event("reactions_get", <<>>, token, ""))]
                 ELSE [r EXCEPT !.pc = "done",
                                !.before = Stored(bucket, key),
                                !.after = Stored(bucket, key),
                                !.trace = Append(read,
                                    Event("views_open", <<>>, r.token, "ok"))]]
    /\ UNCHANGED <<cfg, state_store, installation_store, revocation, call, history, bucket, reacted, all_emojis, emoji_task, tasks,
                   app_token, accepted>>

\* reactions.get answers: the remaining reactions are computed and the first
\* reactions.add call is issued (handlers.py:185-196)
ShortcutGet(s) ==
    LET r        == req[s]
        used     == get_user_reactions(ReactionsGetResponse(reacted), r.user)
        to_react == ToReact(r.reactions, used)
        next     == IssueAdd([r EXCEPT !.used = used, !.had = reacted[r.user]],
                             to_react, 1, r.trace)
    IN
    /\ r.kind = "shortcut" /\ r.pc = "reactions_get"
    /\ req' = [req EXCEPT ![s] =
                 IF next.pc = "done"
                 THEN [next EXCEPT !.after = Stored(bucket, KeyOf(r.user))]
                 ELSE next]
    /\ UNCHANGED <<cfg, state_store, installation_store, revocation, call, history, bucket, reacted, all_emojis, emoji_task, tasks,
                   app_token, accepted>>

\* the results Slack can give the reactions.add call in flight
AddResults(r) ==
    LET actor  == TokenOwner(r.token)
        name   == r.to_react[r.i]
        errors == {k \in 1..Len(r.trace) :
                      r.trace[k].op = "reactions_add" /\ r.trace[k].res = "error"}
    IN  IF actor = None THEN {"error"}
        ELSE IF name \in reacted[actor] THEN {"already_reacted"}
        ELSE {"ok"} \cup (IF Cardinality(errors) < MaxAddErrors THEN {"error"} ELSE {})

\* reactions.add answers call i: success, or a SlackApiError that is caught;
\* after the pause the next call is issued (handlers.py:190-203)
ShortcutAdd(s, res) ==
    LET r      == req[s]
        tr     == [r.trace EXCEPT ![Len(r.trace)].res = res]
        actor  == TokenOwner(r.token)
        slept  == [r EXCEPT !.pauses = Append(@, Tier3Pause)]
        next   == IF res = "ok" \/ Caught(res)
                  THEN IssueAdd(slept, r.to_react, r.i + 1, tr)
                  ELSE [slept EXCEPT !.pc = "raised", !.trace = tr]
    IN
    /\ r.kind = "shortcut" /\ r.pc = "reactions_add"
    /\ res \in AddResults(r)
    /\ reacted' = IF res = "ok"
                  THEN [reacted EXCEPT ![actor] = @ \cup {r.to_react[r.i]}]
                  ELSE reacted
    /\ req' = [req EXCEPT ![s] =
                 IF next.pc = "reactions_add" THEN next
                 ELSE [next EXCEPT !.after = Stored(bucket, KeyOf(r.user))]]
    /\ UNCHANGED <<cfg, state_store, installation_store, revocation, call, history, bucket, all_emojis, emoji_task, tasks, app_token, accepted>>

\* ------------------------------------------------------------------------
\* EmojiOperator._update_emoji_list (the updater task) and stop_emoji_update
\* ------------------------------------------------------------------------

\* the sleep of 60 seconds is over: the token of app.client is swapped and
\* emoji.list is called (internals.py:75-80)
UpdaterWake(t) ==
    /\ t \in DOMAIN tasks /\ tasks[t].pc = "sleep"
    /\ cfg.clock => tasks[t].slept
    /\ tasks' = [tasks EXCEPT ![t].pc = "fetch", ![t].old_token = app_token,
                              ![t].slept = FALSE]
    /\ app_token' = tasks[t].token
    /\ all_emojis' = CacheDuringFetch(all_emojis)
    /\ history' = ListCalled(history)
    /\ UNCHANGED <<cfg, state_store, installation_store, revocation, call, bucket, reacted, emoji_task, req, accepted>>

\* a variant of UpdaterCatches that catches nothing
UpdaterCatchesNothing(out) == FALSE

\* except SlackApiError in _update_emoji_list: the error of emoji.list is
\* logged inside the loop
UpdaterCatches(out) == ListRaises(out)

\* _get_reactions_in_team returns to the updater: the cache is replaced and
\* the token of app.client restored (internals.py:80-81); a SlackApiError is
\* caught and the loop sleeps again (83-84); another exception ends the task
UpdaterFetched(t, out) ==
    /\ t \in DOMAIN tasks /\ tasks[t].pc = "fetch"
    /\ IF UpdaterCatches(out)
       THEN /\ tasks' = [tasks EXCEPT ![t].pc = "sleep", ![t].last = OutcomeName(out)]
            /\ UNCHANGED <<all_emojis, app_token, history>>
       ELSE IF ListRaises(out) \/ HttpRaises(out)
       THEN /\ tasks' = EndTask(tasks, t, emoji_task, "raised")
            /\ UNCHANGED <<all_emojis, app_token, history>>
       ELSE /\ all_emojis' = get_reactions_in_team(EmojiListResponse, out)
            /\ history' = Fetched(history, all_emojis')
            /\ app_token' = tasks[t].old_token
            /\ tasks' = [tasks EXCEPT ![t].pc = "sleep", ![t].last = OutcomeName(out)]
    /\ UNCHANGED <<cfg, state_store, installation_store, revocation, call, bucket, reacted, emoji_task, req, accepted>>

\* stop_emoji_update: the task EmojiOperator refers to is cancelled
StopEmojiUpdate ==
    /\ emoji_task # NoTask /\ tasks[emoji_task].pc # "done"
    /\ tasks' = EndTask(tasks, emoji_task, emoji_task,
                        IF tasks[emoji_task].pc = "fetch"
                        THEN "cancelled_fetch" ELSE "cancelled_sleep")
    /\ UNCHANGED <<cfg, state_store, installation_store, revocation, call, history, bucket, reacted, all_emojis, emoji_task, app_token,
                   req, accepted>>

\* ------------------------------------------------------------------------
\* handle_token_revocations and delete_users_data
\* ------------------------------------------------------------------------

\* the enterprise and team ids a context can carry
Enterprises == {None, "E1"}

Teams == {TeamId, "T2"}

\* event["tokens"]["oauth"]: the lists of at most two user ids
OauthLists ==
    {<<>>} \cup {<<u>> : u \in Users} \cup {<<u, v>> : u, v \in Users}

\* blob.exists()
BlobExists(b, key) == key \in DOMAIN b

\* blob.delete(): the blob is gone; deleting a blob that does not exist
\* raises NotFound
BlobDelete(st, key) ==
    IF key \in DOMAIN st.bucket
    THEN [st EXCEPT !.bucket = [k \in DOMAIN st.bucket \ {key} |-> st.bucket[k]]]
    ELSE [st EXCEPT !.raised = TRUE]

\* a variant of delete_users_data that stops after the first user id
RECURSIVE delete_users_dataFirst(_, _, _, _, _)
delete_users_dataFirst(st, slack_client_id, enterprise_id, team_id, user_ids) ==
    IF user_ids = <<>> \/ st.raised THEN st
    ELSE LET key == user_data_key(slack_client_id, enterprise_id, team_id, user_ids[1])
         IN  IF BlobExists(st.bucket, key) THEN BlobDelete(st, key) ELSE st

\* delete_users_data: for every user id in turn, the blob of its key is
\* deleted if it exists; st is the bucket and whether a call has raised
RECURSIVE delete_users_data(_, _, _, _, _)
delete_users_data(st, slack_client_id, enterprise_id, team_id, user_ids) ==
    IF user_ids = <<>> \/ st.raised THEN st
    ELSE LET key  == user_data_key(slack_client_id, enterprise_id, team_id, user_ids[1])
             next == IF BlobExists(st.bucket, key) THEN BlobDelete(st, key) ELSE st
         IN  delete_users_data(next, slack_client_id, enterprise_id, team_id,
                               Tail(user_ids))

\* handle_token_revocations on an event whose tokens carry the list oauth,
\* or no oauth entry at all, in the context of an enterprise and a team.
\* delete_users_data awaits nothing, so the handler runs in one step
HandleTokenRevocations(enterprise_id, team_id, has_oauth, oauth) ==
    LET user_ids == IF has_oauth THEN <<oauth>> ELSE <<>>
        start    == [bucket |-> bucket, raised |-> FALSE]
        end      == IF user_ids # <<>> /\ Len(user_ids[1]) > 0
                    THEN delete_users_data(start, SlackClientId, enterprise_id,
                                           team_id, user_ids[1])
                    ELSE start
    IN  /\ bucket' = end.bucket
        /\ revocation' = [turn |-> ~revocation.turn, enterprise_id |-> enterprise_id,
                          team_id |-> team_id, has_oauth |-> has_oauth,
                          oauth |-> oauth, raised |-> end.raised]
        /\ UNCHANGED <<cfg, state_store, installation_store, reacted, all_emojis,
                       emoji_task, tasks, app_token, req,
                       accepted, history, call>>

\* ------------------------------------------------------------------------
\* The OAuth state store
\* ------------------------------------------------------------------------

MaxAdvances == 3

\* the values of str(uuid4())
StateIds == {"s1", "s2"}

\* expiration_seconds of the store the application builds
ExpirationSeconds == 600

\* issue: a new blob named by a fresh uuid4, its body the time of creation
issue(state) ==
    /\ state \notin DOMAIN state_store.issued
    /\ state_store' = [state_store EXCEPT
                          !.blobs = (state :> state_store.now) @@ @,
                          !.issued = (state :> state_store.now) @@ @]
    /\ UNCHANGED <<cfg, installation_store, revocation, call, bucket, reacted,
                   all_emojis, emoji_task, tasks, app_token, req, accepted, history>>

\* the try block of consume that leaves the blob where it is
consume_tryKeeps(blobs, now, state, outcome) ==
    IF state \notin DOMAIN blobs \/ outcome = "download_raises"
    THEN [blobs |-> blobs, result |-> FALSE, raised |-> TRUE]
    ELSE [blobs |-> blobs, result |-> now < blobs[state] + ExpirationSeconds,
          raised |-> FALSE]

\* the try block of consume: download_as_text raises for a missing blob or a
\* failing request, delete raises for a failing request
consume_try(blobs, now, state, outcome) ==
    IF state \notin DOMAIN blobs \/ outcome = "download_raises"
    THEN [blobs |-> blobs, result |-> FALSE, raised |-> TRUE]
    ELSE LET created     == blobs[state]
             expiration  == created + ExpirationSeconds
             still_valid == now < expiration
         IN  IF outcome = "delete_raises"
             THEN [blobs |-> blobs, result |-> FALSE, raised |-> TRUE]
             ELSE [blobs |-> [k \in DOMAIN blobs \ {state} |-> blobs[k]],
                   result |-> still_valid,
                   raised |-> FALSE]

\* consume: except Exception logs a warning and returns False
consume(blobs, now, state, outcome) ==
    LET body == consume_try(blobs, now, state, outcome)
    IN  IF body.raised
        THEN [blobs |-> body.blobs, result |-> FALSE, raised |-> FALSE]
        ELSE body

Consume(state, outcome) ==
    LET end == consume(state_store.blobs, state_store.now, state, outcome)
    IN  /\ state_store' = [state_store EXCEPT
              !.blobs = end.blobs,
              !.accepted = IF end.result THEN @ \cup {state} ELSE @,
              !.twice = @ \/ (end.result /\ state \in state_store.accepted),
              !.last = [turn |-> ~state_store.last.turn, state |-> state,
                        at |-> state_store.now, outcome |-> outcome,
                        held |-> state \in DOMAIN state_store.blobs,
                        result |-> end.result, raised |-> end.raised]]
        /\ UNCHANGED <<cfg, installation_store, revocation, call, bucket, reacted,
                       all_emojis, emoji_task, tasks, app_token, req, accepted, history>>

\* time.time() grows by d seconds
Advance(d) ==
    /\ state_store.advances < MaxAdvances
    /\ state_store' = [state_store EXCEPT !.now = @ + d, !.advances = @ + 1]
    /\ UNCHANGED <<cfg, installation_store, revocation, call, bucket, reacted,
                   all_emojis, emoji_task, tasks, app_token, req, accepted, history>>

\* Google Cloud Storage answers a consume or fails in one of its two calls;
\* between two operations pass 1, 599 or 600 seconds
NextStates ==
    \/ \E state \in StateIds : issue(state)
    \/ \E state \in StateIds, outcome \in {"ok", "download_raises", "delete_raises"} :
          Consume(state, outcome)
    \/ \E d \in {1, ExpirationSeconds - 1, ExpirationSeconds} : Advance(d)

SpecStates == InitPure /\ [][NextStates]_vars

\* ------------------------------------------------------------------------
\* The installation store
\* ------------------------------------------------------------------------

\* _key: the blob name of a bot or of an installer
_key(data_type, enterprise_id, team_id, user_id, is_enterprise_install) ==
    LET none == "none"
        e_id == IF enterprise_id = None THEN none ELSE enterprise_id
        t_id == IF team_id = None \/ is_enterprise_install THEN none ELSE team_id
        workspace_path == SlackClientId \o "/" \o e_id \o "-" \o t_id
    IN  IF user_id # None
        THEN workspace_path \o "/" \o data_type \o "-" \o user_id
        ELSE workspace_path \o "/" \o data_type

\* save: the bot, the installer of the workspace and the installer of the user
save(blobs, enterprise_id, team_id, user_id, is_enterprise_install) ==
    blobs \cup {_key("bot", enterprise_id, team_id, None, is_enterprise_install),
                _key("installer", enterprise_id, team_id, None, is_enterprise_install),
                _key("installer", enterprise_id, team_id,
                     IF user_id = None THEN "none" ELSE user_id,
                     is_enterprise_install)}

\* _delete_entity: blob.delete() if blob.exists()
_delete_entity(blobs, data_type, enterprise_id, team_id, user_id, is_enterprise_install) ==
    blobs \ {_key(data_type, enterprise_id, team_id, user_id, is_enterprise_install)}

\* find_bot and find_installation: the entity of the blob, None if the
\* download raises because there is no such blob
find_entity(blobs, data_type, enterprise_id, team_id, user_id, is_enterprise_install) ==
    LET key == _key(data_type, enterprise_id, team_id, user_id, is_enterprise_install)
    IN  IF key \in blobs THEN key ELSE None

\* the two deletions of delete_all and async_delete_all
Deletions(enterprise_id, team_id, is_enterprise_install) ==
    {[data_type |-> d, enterprise_id |-> enterprise_id, team_id |-> team_id,
      is_enterprise_install |-> is_enterprise_install] : d \in {"bot", "installer"}}

\* the caller of a deletion has got control back
Returned(via, enterprise_id, team_id, is_enterprise_install) ==
    [NoCaller EXCEPT !.pc = "returned", !.via = via, !.enterprise_id = enterprise_id,
                     !.team_id = team_id,
                     !.is_enterprise_install = is_enterprise_install]

AsyncSave(enterprise_id, team_id, user_id, is_enterprise_install) ==
    /\ installation_store.caller.pc # "returned"
    /\ installation_store' = [installation_store EXCEPT
          !.blobs = save(@, enterprise_id, team_id, user_id, is_enterprise_install)]
    /\ UNCHANGED <<cfg, state_store, revocation, call, bucket, reacted,
                   all_emojis, emoji_task, tasks, app_token, req, accepted, history>>

\* async_delete_all: asyncio.gather wraps the two coroutines in tasks and
\* schedules them; its future is not awaited, so the method returns with
\* the tasks not yet started
async_delete_all(enterprise_id, team_id, is_enterprise_install) ==
    /\ installation_store.caller.pc # "returned"
    /\ installation_store' = [installation_store EXCEPT
          !.scheduled = @ \cup Deletions(enterprise_id, team_id, is_enterprise_install),
          !.caller = Returned("async_delete_all", enterprise_id, team_id,
                              is_enterprise_install)]
    /\ UNCHANGED <<cfg, state_store, revocation, call, bucket, reacted,
                   all_emojis, emoji_task, tasks, app_token, req, accepted, history>>

\* delete_all: delete_bot, then delete_installation
delete_all(enterprise_id, team_id, is_enterprise_install) ==
    /\ installation_store.caller.pc # "returned"
    /\ installation_store' = [installation_store EXCEPT
          !.blobs = _delete_entity(
                        _delete_entity(@, "bot", enterprise_id, team_id, None,
                                       is_enterprise_install),
                        "installer", enterprise_id, team_id, None,
                        is_enterprise_install),
          !.caller = Returned("delete_all", enterprise_id, team_id,
                              is_enterprise_install)]
    /\ UNCHANGED <<cfg, state_store, revocation, call, bucket, reacted,
                   all_emojis, emoji_task, tasks, app_token, req, accepted, history>>

\* the caller's next statements: find_bot and find_installation for the
\* workspace it has just deleted
FindAfterDelete ==
    LET c == installation_store.caller
    IN  /\ c.pc = "returned"
        /\ installation_store' = [installation_store EXCEPT
              !.caller = [c EXCEPT
                  !.pc = "found",
                  !.bot = find_entity(installation_store.blobs, "bot",
                                      c.enterprise_id, c.team_id, None,
                                      c.is_enterprise_install),
                  !.installation = find_entity(installation_store.blobs, "installer",
                                               c.enterprise_id, c.team_id, None,
                                               c.is_enterprise_install)]]
        /\ UNCHANGED <<cfg, state_store, revocation, call, bucket, reacted,
                       all_emojis, emoji_task, tasks, app_token, req, accepted, history>>

\* the event loop runs a scheduled async_delete_bot or
\* async_delete_installation once the caller has given control back:
\* between the return of a deletion and the find that follows it nothing
\* else runs
RunScheduled(task) ==
    /\ installation_store.caller.pc # "returned"
    /\ task \in installation_store.scheduled
    /\ installation_store' = [installation_store EXCEPT
          !.blobs = _delete_entity(@, task.data_type, task.enterprise_id,
                                   task.team_id, None, task.is_enterprise_install),
          !.scheduled = @ \ {task}]
    /\ UNCHANGED <<cfg, state_store, revocation, call, bucket, reacted,
                   all_emojis, emoji_task, tasks, app_token, req, accepted, history>>

\* a workspace without enterprise and an enterprise-wide installation
Installed == {[enterprise_id |-> None, is_enterprise_install |-> FALSE],
              [enterprise_id |-> "E1", is_enterprise_install |-> TRUE]}

NextInstallations ==
    \/ \E w \in Installed, u \in {None, "U1"} :
          AsyncSave(w.enterprise_id, TeamId, u, w.is_enterprise_install)
    \/ \E w \in Installed :
          async_delete_all(w.enterprise_id, TeamId, w.is_enterprise_install)
    \/ \E w \in Installed : delete_all(w.enterprise_id, TeamId, w.is_enterprise_install)
    \/ FindAfterDelete
    \/ \E w \in Installed :
          \E task \in Deletions(w.enterprise_id, TeamId, w.is_enterprise_install) :
             RunScheduled(task)

SpecInstallations == InitPure /\ [][NextInstallations]_vars

\* ------------------------------------------------------------------------
\* Time
\* ------------------------------------------------------------------------

\* 60 seconds pass, the time of asyncio.sleep(60): the emojis in the cache
\* are now older than that, the tasks that were sleeping have slept, and no
\* emoji.list call made so far is of the last 60 seconds
Tick ==
    /\ cfg.clock
    /\ history' = [history EXCEPT !.stale = all_emojis # {},
                                  !.list_called = FALSE,
                                  !.list_repeated = FALSE]
    /\ tasks' = [t \in DOMAIN tasks |->
                    IF tasks[t].pc = "sleep" THEN [tasks[t] EXCEPT !.slept = TRUE]
                    ELSE tasks[t]]
    /\ UNCHANGED <<cfg, state_store, installation_store, revocation, call, bucket, reacted, all_emojis, emoji_task, app_token,
                   req, accepted>>

\* ------------------------------------------------------------------------
\* Specifications
\* ------------------------------------------------------------------------

Next ==
    \/ \E s \in cfg.command_slots, u \in cfg.users : ReceiveCommand(s, u, FALSE, <<>>)
    \/ \E s \in cfg.command_slots, u \in cfg.users, text \in cfg.texts :
          ReceiveCommand(s, u, TRUE, text)
    \/ \E s \in Slots : CommandBody(s)
    \/ \E s \in Slots, out \in cfg.fetches : CommandFetched(s, out)
    \/ \E s \in cfg.shortcut_slots, u \in cfg.users : ReceiveShortcut(s, u)
    \/ \E s \in Slots : ShortcutBody(s)
    \/ \E s \in Slots : ShortcutGet(s)
    \/ \E s \in Slots, res \in cfg.add_results :
          ShortcutAdd(s, res)
    \/ \E t \in TaskIds : UpdaterWake(t)
    \/ \E t \in TaskIds, out \in cfg.fetches : UpdaterFetched(t, out)
    \/ StopEmojiUpdate

Spec == Init /\ [][Next]_vars

\* the handlers, the updater and the passing of time
NextTimed == Next \/ Tick

SpecCache == InitCache /\ [][NextTimed]_vars

SpecRace == InitRace /\ [][Next]_vars

SpecSeq == InitSeq /\ [][Next]_vars

SpecLimit == InitLimit /\ [][Next]_vars

SpecText == InitText /\ [][Next]_vars

\* the saves and an updater that nobody stops
NextRefresh ==
    \/ \E s \in cfg.command_slots, u \in cfg.users, text \in cfg.texts :
          ReceiveCommand(s, u, TRUE, text)
    \/ \E s \in Slots : CommandBody(s)
    \/ \E s \in Slots, out \in cfg.fetches : CommandFetched(s, out)
    \/ \E t \in TaskIds : UpdaterWake(t)
    \/ \E t \in TaskIds, out \in cfg.fetches : UpdaterFetched(t, out)

\* the event loop wakes a sleeping updater and completes its fetch, and the
\* emoji directory does not fail for ever
SpecRefresh ==
    /\ InitRefresh
    /\ [][NextRefresh]_vars
    /\ \A t \in TaskIds :
          /\ WF_vars(UpdaterWake(t))
          /\ WF_vars(\E out \in cfg.fetches : UpdaterFetched(t, out))
          /\ SF_vars(\E out \in cfg.fetches :
                        OutcomeName(out) = "ok" /\ UpdaterFetched(t, out))

\* the two handlers; the updater task stays asleep
NextApply ==
    \/ \E s \in cfg.command_slots, u \in cfg.users : ReceiveCommand(s, u, FALSE, <<>>)
    \/ \E s \in cfg.command_slots, u \in cfg.users, text \in cfg.texts :
          ReceiveCommand(s, u, TRUE, text)
    \/ \E s \in Slots : CommandBody(s)
    \/ \E s \in Slots, out \in cfg.fetches : CommandFetched(s, out)
    \/ \E s \in cfg.shortcut_slots, u \in cfg.users : ReceiveShortcut(s, u)
    \/ \E s \in Slots : ShortcutBody(s)
    \/ \E s \in Slots : ShortcutGet(s)
    \/ \E s \in Slots, res \in cfg.add_results : ShortcutAdd(s, res)

\* Slack answers every reactions.add call, with a result or an error, and
\* the event loop resumes the handler after the pause
SpecApply ==
    /\ InitApply
    /\ [][NextApply]_vars
    /\ \A s \in Slots : WF_vars(\E res \in cfg.add_results : ShortcutAdd(s, res))

\* the handlers and the tokens_revoked events; the updater task, which has
\* no part in the bucket, stays asleep
NextRevoke ==
    \/ \E s \in cfg.command_slots, u \in cfg.users : ReceiveCommand(s, u, FALSE, <<>>)
    \/ \E s \in cfg.command_slots, u \in cfg.users, text \in cfg.texts :
          ReceiveCommand(s, u, TRUE, text)
    \/ \E s \in Slots : CommandBody(s)
    \/ \E s \in Slots, out \in cfg.fetches : CommandFetched(s, out)
    \/ \E s \in cfg.shortcut_slots, u \in cfg.users : ReceiveShortcut(s, u)
    \/ \E s \in Slots : ShortcutBody(s)
    \/ \E s \in Slots : ShortcutGet(s)
    \/ \E s \in Slots, res \in cfg.add_results : ShortcutAdd(s, res)
    \/ \E e \in Enterprises, t \in Teams, oauth \in OauthLists :
          HandleTokenRevocations(e, t, TRUE, oauth)
    \/ \E e \in Enterprises, t \in Teams : HandleTokenRevocations(e, t, FALSE, <<>>)

SpecRevoke == InitRevoke /\ [][NextRevoke]_vars

SpecStore == InitStore /\ [][NextRevoke]_vars

\* ------------------------------------------------------------------------
\* The parser and the validator of get_valid_reactions on their own
\* ------------------------------------------------------------------------

\* the bound on the pieces of a text and on the codes of a candidate list
MaxLen == 3

\* the pieces texts are made of
TextPieces ==
    { <<":","a",":">>, <<":","b",":">>,
      <<":","a",":",":","s","k","i","n","-","t","o","n","e","-","2",":">>,
      <<" ">>, <<"a">>, <<":">> }

\* the texts of at most n pieces
RECURSIVE TextsUpTo(_)
TextsUpTo(n) ==
    IF n = 0 THEN {<<>>}
    ELSE TextsUpTo(n - 1) \cup {t \o p : t \in TextsUpTo(n - 1), p \in TextPieces}

\* the codes candidate lists are made of: simple ones, and modified ones
\* whose base, modifier or both are no emoji
Codes ==
    { <<"a">>, <<"b">>, <<"a",":",":","z">>, <<"z",":",":","a">>,
      <<"a",":",":","b",":",":","z">> }

\* the lists of at most n codes
RECURSIVE ListsUpTo(_)
ListsUpTo(n) ==
    IF n = 0 THEN {<<>>}
    ELSE ListsUpTo(n - 1) \cup {Append(l, c) : l \in ListsUpTo(n - 1), c \in Codes}

\* the lists of emojis the validator is given
Snapshots == SUBSET {<<"a">>, <<"b">>, <<"a",":",":","z">>}

\* internals.py:138-144 applied to a text, once in a behaviour
ApplyParser(text) ==
    /\ call = NoCall
    /\ call' = [op |-> "parse", text |-> text, candidates |-> <<>>,
                snapshot |-> {}, result |-> ParseReactions(text)]
    /\ UNCHANGED <<cfg, state_store, installation_store, revocation, bucket, reacted, all_emojis, emoji_task, tasks, app_token,
                   req, accepted, history>>

\* internals.py:145-164 applied to a list of candidates and a list of emojis
ApplyValidator(candidates, snapshot) ==
    /\ call = NoCall
    /\ call' = [op |-> "validate", text |-> <<>>, candidates |-> candidates,
                snapshot |-> snapshot,
                result |-> ValidReactions(candidates, snapshot)]
    /\ UNCHANGED <<cfg, state_store, installation_store, revocation, bucket, reacted, all_emojis, emoji_task, tasks, app_token,
                   req, accepted, history>>

\* the parser applied to a text, its result joined as a save stores it
\* (handlers.py:122), rendered as a display shows it (handlers.py:131), and
\* the parser applied to what is shown
ApplyReparse(text) ==
    /\ call = NoCall
    /\ call' = [op |-> "reparse", text |-> text,
                candidates |-> ParseReactions(text), snapshot |-> {},
                result |-> ParseReactions(Render(Join(ParseReactions(text))))]
    /\ UNCHANGED <<cfg, state_store, installation_store, revocation, bucket, reacted, all_emojis, emoji_task, tasks, app_token,
                   req, accepted, history>>

\* the ids keys are computed from: enterprises absent, empty, Slack-style,
\* named none, and with a dash; teams Slack-style and with a dash
KeyEnterprises == {None, "", "E", "ET", "none", "E-T"}

KeyTeams == {"T", "TT", "T-T"}

\* the payload of a slash command of user u of team t in enterprise e
CommandPayload(e, t, u) ==
    IF e = None THEN [team_id |-> t, user_id |-> u]
    ELSE [enterprise_id |-> e, team_id |-> t, user_id |-> u]

\* the payload of a message shortcut of user u of team t in enterprise e
ShortcutPayload(e, t, u) ==
    [enterprise |-> IF e = None THEN <<>> ELSE <<[id |-> e]>>,
     team |-> [id |-> t], user |-> [id |-> u]]

\* handlers.py:97-102: the key of the command handler
CommandKey(command) ==
    user_data_key(SlackClientId,
                  IF "enterprise_id" \in DOMAIN command
                  THEN command.enterprise_id ELSE None,
                  command.team_id, command.user_id)

\* handlers.py:165-172: the key of the shortcut handler
ShortcutKey(shortcut) ==
    user_data_key(SlackClientId,
                  IF shortcut.enterprise # <<>> THEN shortcut.enterprise[1].id ELSE None,
                  shortcut.team.id, shortcut.user.id)

\* user_data_key applied to two users a and b, each <<enterprise, team,
\* user>>, and the keys the two handlers compute for a
ApplyKeys(a, b) ==
    /\ call = NoCall
    /\ call' = [op |-> "key", text |-> <<>>, candidates |-> <<a, b>>,
                snapshot |-> {},
                result |-> << user_data_key(SlackClientId, a[1], a[2], a[3]),
                              user_data_key(SlackClientId, b[1], b[2], b[3]),
                              CommandKey(CommandPayload(a[1], a[2], a[3])),
                              ShortcutKey(ShortcutPayload(a[1], a[2], a[3])) >>]
    /\ UNCHANGED <<cfg, state_store, installation_store, revocation, bucket, reacted, all_emojis, emoji_task, tasks,
                   app_token, req, accepted, history>>

\* the entries of a reactions list: a name and the users who reacted
ReactionEntries == [name : {<<"a">>, <<"b">>}, users : SUBSET Users]

\* the items reactions.get reports: without a reactions entry, or with a
\* list of at most two reactions of different names
Holders ==
    {[ts |-> "12345"]}
        \cup {[ts |-> "12345", reactions |-> <<e>>] : e \in ReactionEntries}
        \cup {[ts |-> "12345", reactions |-> <<e, f>>] :
                 e \in {x \in ReactionEntries : x.name = <<"a">>},
                 f \in {x \in ReactionEntries : x.name = <<"b">>}}

\* the responses of reactions.get: a message, a file, a file comment, and
\* a response of another type
ReactionsGetResponses ==
    {[type |-> "message", message |-> h] : h \in Holders}
        \cup {[type |-> "file", file |-> h] : h \in Holders}
        \cup {[type |-> "file_comment", comment |-> h, file |-> [ts |-> "12345"]] :
                 h \in Holders}
        \cup {[type |-> "channel", channel |-> h] : h \in Holders}

\* get_user_reactions on a response of reactions.get for a user
ApplyGetUserReactions(response, user_id) ==
    /\ call = NoCall
    /\ call' = [op |-> "get_user_reactions", text |-> <<>>,
                candidates |-> <<response>>, snapshot |-> {user_id},
                result |-> get_user_reactions(response, user_id)]
    /\ UNCHANGED <<cfg, state_store, installation_store, revocation, bucket, reacted, all_emojis, emoji_task, tasks,
                   app_token, req, accepted, history>>

NextPure ==
    \/ \E text \in TextsUpTo(MaxLen) : ApplyParser(text)
    \/ \E text \in TextsUpTo(MaxLen) : ApplyReparse(text)
    \/ \E a, b \in KeyEnterprises \X KeyTeams \X Users : ApplyKeys(a, b)
    \/ \E response \in ReactionsGetResponses, u \in Users :
          ApplyGetUserReactions(response, u)
    \/ \E candidates \in ListsUpTo(MaxLen), snapshot \in Snapshots :
          ApplyValidator(candidates, snapshot)

SpecPure == InitPure /\ [][NextPure]_vars

\* ------------------------------------------------------------------------
\* Properties
\* ------------------------------------------------------------------------

\* the calls of one kind a handler made, in order
Calls(trace, op) == SelectSeq(trace, LAMBDA e : e.op = op)

\* the arguments of those calls
CallArgs(trace, op) == [k \in 1..Len(Calls(trace, op)) |-> Calls(trace, op)[k].arg]

\* the replies a command handler sent with respond()
Replies(r) == [k \in 1..Len(Calls(r.trace, "respond")) |-> Calls(r.trace, "respond")[k].res]

SaveDone(r) == r.kind = "command" /\ r.pc = "done" /\ IsSave(r.has_text, r.text)

DisplayDone(r) == r.kind = "command" /\ r.pc = "done" /\ ~IsSave(r.has_text, r.text)

\* a shortcut handler that found a list and got the answer of reactions.get
Applying(r) ==
    r.kind = "shortcut" /\ r.pc \in {"reactions_add", "done"} /\ r.before # <<>>

\* the short-codes of a list, each wrapped in colons, separated by spaces
RECURSIVE ColonJoin(_)
ColonJoin(list) ==
    IF list = <<>> THEN <<>>
    ELSE <<":">> \o list[1] \o <<":">>
            \o (IF Len(list) = 1 THEN <<>> ELSE <<" ">> \o ColonJoin(Tail(list)))

C4_AddsAreOrderedDifference ==
    \A s \in Slots :
        LET r        == req[s]
            saved    == accepted[r.user][1]
            expected == SelectSeq(saved, LAMBDA x : x \notin Elems(r.used))
            names    == CallArgs(r.trace, "reactions_add")
        IN  Applying(r) =>
                IF r.pc = "done" THEN names = expected
                ELSE /\ Len(names) <= Len(expected)
                     /\ names = SubSeq(expected, 1, Len(names))

\* an apply that found some of the saved reactions already used added the
\* others
C4_Witness ==
    \E s \in Slots :
        LET r == req[s] IN
        /\ Applying(r) /\ r.pc = "done"
        /\ r.used # <<>>
        /\ CallArgs(r.trace, "reactions_add") # <<>>
        /\ Len(CallArgs(r.trace, "reactions_add")) < Len(accepted[r.user][1])

C6_ApplyAddsOnlyMissing ==
    \A s \in Slots :
        LET r     == req[s]
            names == CallArgs(r.trace, "reactions_add")
        IN  /\ ~(r.kind = "shortcut" /\ r.pc = "raised")
            /\ Applying(r) =>
                  /\ Elems(names) \cap r.had = {}
                  /\ Elems(r.reactions) \subseteq r.had => names = <<>>
                  /\ r.pc = "done" => Elems(names) = Elems(r.reactions) \ r.had

\* a second apply added, with success, just the reactions the first one
\* had failed to add
C6_Witness ==
    \E s \in Slots :
        LET r == req[s] IN
        /\ Applying(r) /\ r.pc = "done"
        /\ r.had # {} /\ r.to_react # <<>>
        /\ r.had \cup Elems(r.to_react) = Elems(r.reactions)
        /\ \A k \in 1..Len(r.trace) :
              r.trace[k].op = "reactions_add" => r.trace[k].res = "ok"

\* C7: the first call of every handler is ack(), and the handler calls it
\* once: every read and write of the bucket, every fetch of the emojis,
\* every reactions.get and reactions.add call and every reply comes after
\* it, on every branch.
C7_AckFirstAndOnce ==
    \A s \in Slots :
        LET r == req[s] IN
        r.kind # "idle" =>
            /\ Len(r.trace) >= 1
            /\ r.trace[1].op = "ack"
            /\ Len(Calls(r.trace, "ack")) = 1

\* a save that fetched the emojis, uploaded and replied
C7_Witness ==
    \E s \in Slots :
        LET r == req[s] IN
        /\ SaveDone(r)
        /\ Len(Calls(r.trace, "emoji_list")) = 1
        /\ Len(Calls(r.trace, "upload")) = 1
        /\ Len(Calls(r.trace, "respond")) = 1
        /\ r.trace[1].op = "ack"

\* C8: an apply of a user with no stored list opens the dialog and is done:
\* it calls neither reactions.get nor reactions.add, and the client's token
\* stays the one the handler was handed.
C8_NoListOpensDialog ==
    \A s \in Slots :
        LET r == req[s] IN
        (r.kind = "shortcut" /\ r.pc # "acked" /\ r.before = <<>>) =>
            /\ r.pc = "done"
            /\ Len(Calls(r.trace, "views_open")) = 1
            /\ r.trace[Len(r.trace)].op = "views_open"
            /\ Calls(r.trace, "reactions_get") = <<>>
            /\ Calls(r.trace, "reactions_add") = <<>>
            /\ r.token = BotToken
            /\ r.trace[Len(r.trace)].token = BotToken

\* a user without a list got the dialog while another user's list is stored
C8_Witness ==
    \E s \in Slots :
        LET r == req[s] IN
        /\ r.kind = "shortcut" /\ r.pc = "done" /\ r.before = <<>>
        /\ Len(Calls(r.trace, "views_open")) = 1
        /\ bucket # << >>

\* C9: every reactions.get and reactions.add call of an apply of user U
\* carries U's own token, whatever other applies and updater tasks are
\* doing meanwhile.
C9_CallsCarryUsersToken ==
    \A s \in Slots :
        LET r == req[s] IN
        r.kind = "shortcut" =>
            \A k \in 1..Len(r.trace) :
                r.trace[k].op \in {"reactions_get", "reactions_add"} =>
                    r.trace[k].token = UserToken(r.user)

\* applies of two users are both in their loops while an updater task has
\* swapped the token of app.client
C9_Witness ==
    /\ \E s1, s2 \in Slots :
          /\ req[s1].kind = "shortcut" /\ req[s1].pc = "reactions_add"
          /\ req[s2].kind = "shortcut" /\ req[s2].pc = "reactions_add"
          /\ req[s1].user # req[s2].user
    /\ \E t \in DOMAIN tasks : tasks[t].pc = "fetch"
    /\ app_token = BotToken

\* C10, as stated: when an apply is done, the token of the client it was
\* handed is the token the client had when the handler started.
C10_TokenIsRestored ==
    \A s \in Slots :
        LET r == req[s] IN
        (r.kind = "shortcut" /\ r.pc = "done") => r.token = BotToken

\* C10, amended: an apply changes the token of the client of its own
\* request only. When it is done that client carries the user's token if a
\* list was stored (nothing puts the first token back) and the first token
\* if none was; no command's client, no emoji.list call, no updater task
\* and not app.client ever carries a user's token.
C10_TokenStaysInRequest ==
    /\ \A s \in Slots :
          LET r == req[s] IN
          /\ (r.kind = "shortcut" /\ r.pc = "done") =>
                r.token = IF r.before = <<>> THEN BotToken ELSE UserToken(r.user)
          /\ r.kind = "command" =>
                /\ r.token = BotToken
                /\ \A k \in 1..Len(r.trace) :
                      r.trace[k].op = "emoji_list" => r.trace[k].token = BotToken
    /\ \A t \in DOMAIN tasks : tasks[t].token = BotToken
    /\ app_token \in {None, BotToken}

\* an apply is done with the user's token on its client while a save, with
\* the bot token on its own client, fetches the emojis
C10_Witness ==
    \E s1, s2 \in Slots :
        /\ req[s1].kind = "shortcut" /\ req[s1].pc = "done"
        /\ req[s1].token = UserToken(req[s1].user)
        /\ req[s2].kind = "command" /\ req[s2].pc = "fetch"

\* a save that reached the test of internals.py:154 (its text has matches)
Validating(r) ==
    /\ r.kind = "command" /\ IsSave(r.has_text, r.text)
    /\ ParseReactions(r.text) # <<>>
    /\ r.pc \in {"fetch", "done", "raised"}

\* how the fetch of a save ended: the result of its emoji.list event
FetchResults(r) ==
    [k \in 1..Len(Calls(r.trace, "emoji_list")) |-> Calls(r.trace, "emoji_list")[k].res]

\* C11, as stated: a validation call fetches if and only if the cache holds
\* no emojis or holds emojis older than 60 seconds.
C11_FetchIffNoneOrExpired ==
    \A s \in Slots :
        LET r == req[s] IN
        Validating(r) =>
            (Calls(r.trace, "emoji_list") # <<>>) = (~r.had_cache \/ r.stale_then)

\* C12, as stated: no two emoji.list calls are made within 60 seconds.
C12_OneListCallPerWindow == ~history.list_repeated

\* C13, as stated: at most one fetch is in flight, at most one updater task
\* is alive, and every task alive is the one EmojiOperator refers to.
C13_SingleFlight ==
    /\ Cardinality({s \in Slots : req[s].pc = "fetch"}
                   \cup {t \in DOMAIN tasks : tasks[t].pc = "fetch"}) <= 1
    /\ Cardinality(AliveTasks) <= 1
    /\ \A t \in AliveTasks : t = emoji_task

\* the emojis of the workspace alone: custom names and category names
WorkspaceEmojis ==
    EmojiListResponse.emoji
        \cup UNION {Elems(EmojiListResponse.categories[k].emoji_names) :
                        k \in 1..Len(EmojiListResponse.categories)}

\* C14, as stated: a fetch whose GET of the standard emojis fails (connection
\* error, status other than 200, timeout) does not raise and returns the
\* workspace's custom and category emojis.
C14_SecondaryFailureAbsorbed ==
    \A s \in Slots :
        LET r == req[s] IN
        (Validating(r) /\ r.pc # "fetch"
            /\ FetchResults(r) \in {<<"ClientConnectorError">>, <<"bad_status">>,
                                    <<"TimeoutError">>}) =>
            /\ r.pc = "done"
            /\ r.fetched = <<WorkspaceEmojis>>

\* C15: when emoji.list raises, the error leaves _get_reactions_in_team and
\* the cache keeps the list of the last completed fetch: in a save the
\* error leaves the handler, in the updater it reaches the loop; neither
\* step assigns _all_emojis.
C15_PrimaryFailureKeepsCache ==
    [][ /\ \A s \in Slots :
              (req[s].pc = "fetch" /\ req'[s].pc # "fetch"
                  /\ FetchResults(req'[s]) = <<"SlackApiError">>) =>
                  /\ req'[s].pc = "raised"
                  /\ all_emojis' = history.last_fetch
                  /\ history'.last_fetch = history.last_fetch
        /\ \A t \in DOMAIN tasks :
              (tasks[t].pc = "fetch" /\ t \in DOMAIN tasks'
                  /\ tasks'[t].pc = "sleep" /\ tasks'[t].last = "SlackApiError") =>
                  /\ all_emojis' = history.last_fetch
                  /\ history'.last_fetch = history.last_fetch
      ]_vars

\* a save raised on emoji.list while the cache held emojis, which it still
\* holds
C15_Witness ==
    \E s \in Slots :
        /\ Validating(req[s]) /\ req[s].pc = "raised"
        /\ FetchResults(req[s]) = <<"SlackApiError">>
        /\ req[s].had_cache
        /\ all_emojis # {} /\ all_emojis = history.last_fetch

\* C16: a save whose emoji.list call raises ends by raising: it sends no
\* reply, in particular not the "no valid reactions" one, and uploads
\* nothing.
C16_PrimaryFailureIsNoEmptyResult ==
    \A s \in Slots :
        LET r == req[s] IN
        (Validating(r) /\ FetchResults(r) = <<"SlackApiError">>) =>
            /\ r.pc = "raised"
            /\ Calls(r.trace, "respond") = <<>>
            /\ Calls(r.trace, "upload") = <<>>
            /\ r.reactions = <<>>

\* a save of a text with no valid reaction raised on emoji.list
C16_Witness ==
    \E s \in Slots :
        /\ Validating(req[s]) /\ req[s].pc = "raised"
        /\ req[s].text = TextUnknown
        /\ FetchResults(req[s]) = <<"SlackApiError">>

\* C17: after stop_emoji_update, whether the task was sleeping or had a
\* fetch in flight, the cache holds the list of the last completed fetch,
\* which is not empty.
C17_StopKeepsSnapshot ==
    (/\ emoji_task # NoTask
     /\ tasks[emoji_task].pc = "done"
     /\ tasks[emoji_task].ended \in {"cancelled_sleep", "cancelled_fetch"}) =>
        /\ all_emojis = history.last_fetch
        /\ all_emojis # {}

\* the task was stopped while its fetch was in flight
C17_Witness ==
    /\ emoji_task # NoTask
    /\ tasks[emoji_task].pc = "done"
    /\ tasks[emoji_task].ended = "cancelled_fetch"
    /\ all_emojis # {}

\* C18, as stated: a validation call that finds emojis in the cache does
\* not fetch.
C18_PopulatedNeverFetches ==
    \A s \in Slots :
        LET r == req[s] IN
        (Validating(r) /\ r.had_cache) => Calls(r.trace, "emoji_list") = <<>>

\* the index of the first "::" of a code, 0 if it has none
FirstDoubleColon(c) ==
    IF \E k \in 1..(Len(c) - 1) : c[k] = ":" /\ c[k + 1] = ":"
    THEN CHOOSE k \in 1..(Len(c) - 1) :
            /\ c[k] = ":" /\ c[k + 1] = ":"
            /\ \A j \in 1..(k - 1) : ~(c[j] = ":" /\ c[j + 1] = ":")
    ELSE 0

\* a code the claim calls valid: a simple code of the snapshot, or a
\* modified code whose part before the first "::" is of the snapshot
KnownCode(c, snapshot) ==
    IF FirstDoubleColon(c) = 0 THEN c \in snapshot
    ELSE SubSeq(c, 1, FirstDoubleColon(c) - 1) \in snapshot

\* C19: the validator returns the candidates that are simple codes of the
\* snapshot or modified codes whose part before the first "::" is one, in
\* their order, and nothing else; the modifier plays no part.
C19_ValidatorKeepsKnownInOrder ==
    call.op = "validate" =>
        call.result = SelectSeq(call.candidates,
                                LAMBDA c : KnownCode(c, call.snapshot))

\* a modified code was kept for its base although the snapshot lacks the
\* modifier, and a code was dropped although the snapshot holds its modifier
C19_Witness ==
    /\ call.op = "validate"
    /\ call.snapshot = {<<"a">>}
    /\ call.candidates = << <<"z",":",":","a">>, <<"a",":",":","z">>, <<"a">> >>
    /\ call.result = << <<"a",":",":","z">>, <<"a">> >>

\* the position of the first occurrence of x in a list
FirstIndex(xs, x) == CHOOSE k \in 1..Len(xs) : xs[k] = x /\ \A j \in 1..(k - 1) : xs[j] # x

\* C20: the parser returns every matched code once, without its enclosing
\* colons, in the order of the first occurrences of the codes in the text.
C20_ParserKeepsFirstOccurrence ==
    call.op = "parse" =>
        LET matches == FindAll(call.text)
            result  == call.result
        IN  /\ {Wrap(result[k]) : k \in 1..Len(result)} = Elems(matches)
            /\ Cardinality(Elems(result)) = Len(result)
            /\ \A i, j \in 1..Len(result) :
                  i < j => FirstIndex(matches, Wrap(result[i]))
                              < FirstIndex(matches, Wrap(result[j]))

\* a code that occurs again after another one stays in front of it
C20_Witness ==
    /\ call.op = "parse"
    /\ call.text = <<":","a",":",":","b",":",":","a",":">>
    /\ call.result = << <<"a">>, <<"b">> >>

\* the text carries :token::modifier: from index i on, with the "::" at
\* index j and the closing colon at index k, and nothing before its opening
\* colon that another short-code could claim
ModifiedAt(t, i, j, k) ==
    /\ i = 1 \/ t[i - 1] = " "
    /\ t[i] = ":" /\ t[j] = ":" /\ t[j + 1] = ":" /\ t[k] = ":"
    /\ i + 1 < j /\ j + 2 < k
    /\ \A n \in (i + 1)..(j - 1) : t[n] \in TokenChar
    /\ \A n \in (j + 2)..(k - 1) : t[n] \in TokenChar

\* a modifier of the shape skin-tone-<digits>
IsSkinTone(m) ==
    /\ Len(m) > 10
    /\ SubSeq(m, 1, 10) = <<"s","k","i","n","-","t","o","n","e","-">>
    /\ \A n \in 11..Len(m) : m[n] \in Digit

\* C21 as claimed: :token::modifier: is one modified short-code whatever
\* the modifier is made of.
C21_AnyModifierIsOneCode ==
    call.op = "parse" =>
        \A i, j, k \in 1..Len(call.text) :
            (j + 1 <= Len(call.text) /\ ModifiedAt(call.text, i, j, k))
                => SubSeq(call.text, i + 1, k - 1) \in Elems(call.result)

\* C21: :token::modifier: is one modified short-code when the modifier is
\* skin-tone-<digits>; with any other modifier the whole is no short-code
\* and the token is returned as a simple short-code of its own.
C21_OnlySkinToneIsOneCode ==
    call.op = "parse" =>
        \A i, j, k \in 1..Len(call.text) :
            (j + 1 <= Len(call.text) /\ ModifiedAt(call.text, i, j, k))
                => IF IsSkinTone(SubSeq(call.text, j + 2, k - 1))
                   THEN SubSeq(call.text, i + 1, k - 1) \in Elems(call.result)
                   ELSE /\ SubSeq(call.text, i + 1, k - 1) \notin Elems(call.result)
                        /\ SubSeq(call.text, i + 1, j - 1) \in Elems(call.result)

\* :a::b: was split into the simple short-codes a and b
C21_Witness ==
    /\ call.op = "parse"
    /\ call.text = <<":","a",":",":","b",":">>
    /\ call.result = << <<"a">>, <<"b">> >>

\* C22: parsing the colon-wrapped, space-joined rendering of the parser's
\* result gives that result again, modified short-codes included.
C22_ParseIsIdempotent ==
    call.op = "reparse" => call.result = call.candidates

\* a list of a modified and a simple short-code went through the round trip
C22_Witness ==
    /\ call.op = "reparse"
    /\ call.candidates = << <<"a",":",":","s","k","i","n","-","t","o","n","e","-","2">>,
                            <<"b">> >>
    /\ call.result = call.candidates

\* this step is the end of a save of user u that was accepted
AcceptedSaveStep(u) ==
    \E s \in Slots :
        /\ req[s].kind = "command" /\ req[s].user = u
        /\ IsSave(req[s].has_text, req[s].text)
        /\ req[s].pc \in {"acked", "fetch"} /\ req'[s].pc = "done"
        /\ req'[s].trace[Len(req'[s].trace)].op = "respond"
        /\ req'[s].trace[Len(req'[s].trace)].res = "saved"

\* this step handles a tokens_revoked event
RevocationStep == revocation'.turn # revocation.turn

\* the blobs this step changes, creates or deletes
ChangedKeys ==
    {k \in DOMAIN bucket \cup DOMAIN bucket' : Stored(bucket', k) # Stored(bucket, k)}

\* C23 as claimed: a stored list changes only in an accepted save of its user.
C23_OnlySavesChangeLists ==
    [][\A k \in ChangedKeys : \E u \in Users : k = KeyOf(u) /\ AcceptedSaveStep(u)]_vars

\* C23: a stored list changes only in an accepted save of its user, or is
\* deleted by a tokens_revoked event that lists its user; displays, applies,
\* rejected saves and the saves of other users leave it as it is.
C23_OnlySavesAndRevocationsChangeLists ==
    [][\A k \in ChangedKeys : \E u \in Users :
          /\ k = KeyOf(u)
          /\ \/ AcceptedSaveStep(u)
             \/ /\ RevocationStep
                /\ k \notin DOMAIN bucket'
                /\ revocation'.has_oauth
                /\ u \in Elems(revocation'.oauth)]_vars

\* U1's accepted list was deleted by an event, U2's is stored although an
\* apply of U2 met a failing reactions.add call and has finished
C23_Witness ==
    /\ revocation.oauth # <<>>
    /\ accepted["U1"] # <<>> /\ KeyOf("U1") \notin DOMAIN bucket
    /\ KeyOf("U2") \in DOMAIN bucket
    /\ \E s \in Slots :
          /\ req[s].kind = "shortcut" /\ req[s].pc = "done" /\ req[s].user = "U2"
          /\ \E k \in 1..Len(req[s].trace) : req[s].trace[k].res = "error"

\* an enterprise id that is absent
Absent(e) == e = None \/ e = ""

\* ids as Slack makes them: no "/" and no "-" inside, no enterprise none
SlackStyle(a) == a[1] \in {None, "", "E", "ET"} /\ a[2] \in {"T", "TT"}

\* C24: the key holds the sentinel none for an absent enterprise, two
\* different users with Slack-style ids never get the same key, and the
\* command handler and the shortcut handler compute the same key for a
\* user.
C24_KeysAreDistinctAndShared ==
    call.op = "key" =>
        LET a == call.candidates[1]
            b == call.candidates[2]
        IN  /\ Absent(a[1]) => call.result[1] = "cid/none-" \o a[2] \o "/" \o a[3]
            /\ (SlackStyle(a) /\ SlackStyle(b) /\ call.result[1] = call.result[2])
                  => /\ a[1] = b[1] \/ (Absent(a[1]) /\ Absent(b[1]))
                     /\ a[2] = b[2] /\ a[3] = b[3]
            /\ call.result[3] = call.result[1]
            /\ call.result[4] = call.result[1]

\* two users whose enterprise and team ids run together to the same
\* characters have different keys
C24_Witness ==
    /\ call.op = "key"
    /\ call.candidates = << <<"E", "TT", "U1">>, <<"ET", "T", "U1">> >>
    /\ call.result[1] = "cid/E-TT/U1" /\ call.result[2] = "cid/ET-T/U1"
    /\ call.result[3] = "cid/E-TT/U1" /\ call.result[4] = "cid/E-TT/U1"

\* the command of frame r carries no text, or text of whitespace only
BlankInput(r) ==
    ~r.has_text \/ \A k \in 1..Len(r.text) : r.text[k] \in {" ", "\t", "\n"}

\* the calls of a trace after the ack, by name
OpsAfterAck(trace) == [k \in 1..(Len(trace) - 1) |-> trace[k + 1].op]

\* the handler of a display: it looks the blob up, reads it if it exists,
\* and replies
DisplayShape(r) ==
    /\ r.pc = "done"
    /\ r.after = r.before
    /\ IF r.before = <<>>
       THEN /\ OpsAfterAck(r.trace) = <<"exists", "respond">>
            /\ Replies(r) = <<"none_set">>
       ELSE /\ OpsAfterAck(r.trace) = <<"exists", "download", "respond">>
            /\ Replies(r) = <<"current">>

\* the handler of a save: it never looks the blob up, and it ends with one
\* of the three replies of a save or with the exception of the fetch
SaveShape(r) ==
    /\ Calls(r.trace, "exists") = <<>> /\ Calls(r.trace, "download") = <<>>
    /\ r.pc = "done" => /\ Len(Replies(r)) = 1
                        /\ Replies(r)[1] \in {"too_many", "invalid", "saved"}
    /\ r.pc = "raised" => Replies(r) = <<>>

\* the step of slot s from ack on leaves the cache, its task and the bucket
\* alone
DisplayStepIsQuiet(s) ==
    (req[s].kind = "command" /\ req[s].pc = "acked" /\ BlankInput(req[s])
        /\ req'[s] # req[s])
    => /\ req'[s].pc = "done"
       /\ UNCHANGED <<all_emojis, emoji_task, tasks, history, bucket, app_token>>

\* C25: a command whose text is missing, empty or whitespace is a display:
\* it never fetches, validates or writes, and replies that none is set when
\* no list is stored; every other command is a save.
C25_SaveIffTextNonBlank ==
    /\ [](\A s \in Slots :
            (req[s].kind = "command" /\ req[s].pc # "acked") =>
                IF BlankInput(req[s]) THEN DisplayShape(req[s])
                ELSE SaveShape(req[s]))
    /\ [][\A s \in Slots : DisplayStepIsQuiet(s)]_vars

\* a command of whitespace only was answered that none is set, with emojis
\* in the cache
C25_Witness ==
    \E s \in Slots :
        /\ req[s].kind = "command" /\ req[s].pc = "done"
        /\ req[s].has_text /\ req[s].text = TextWhite
        /\ Replies(req[s]) = <<"none_set">>
        /\ all_emojis # {}

\* the positions of the reactions.add calls of a trace that have not
\* returned or failed yet
InFlight(trace) ==
    {k \in 1..Len(trace) : trace[k].op = "reactions_add" /\ trace[k].res = "pending"}

\* C26: an apply has at most one reactions.add call in flight, the last
\* call it issued: every call before it has returned or failed.
C26_OneAddInFlight ==
    \A s \in Slots :
        LET r == req[s] IN
        r.kind = "shortcut" =>
            /\ Cardinality(InFlight(r.trace)) <= 1
            /\ InFlight(r.trace) \subseteq {Len(r.trace)}
            /\ InFlight(r.trace) # {} <=> r.pc = "reactions_add"

\* an apply waits for its second call after its first one failed, while
\* another apply waits for a call of its own
C26_Witness ==
    /\ \A s \in Slots : req[s].pc = "reactions_add"
    /\ \E s \in Slots :
          /\ req[s].i = 2
          /\ \E k \in 1..Len(req[s].trace) :
                req[s].trace[k].op = "reactions_add" /\ req[s].trace[k].res = "error"

\* C27 as claimed: the pause after every reactions.add call is a positive
\* number of seconds.
C27_PauseIsPositive ==
    \A s \in Slots : \A k \in 1..Len(req[s].pauses) : req[s].pauses[k] > 0

\* the results of the reactions.add calls of a trace for one name
AddResultsFor(trace, name) ==
    SelectSeq(trace, LAMBDA e : e.op = "reactions_add" /\ e.arg = name)

\* the frame holds an apply that is past reactions.get with reactions to add
PastGet(r) ==
    /\ r.kind = "shortcut" /\ r.before # <<>>
    /\ r.pc \in {"reactions_add", "done", "raised"}
    /\ r.to_react # <<>>

\* two applies of one user read the same reactions of the item and the same
\* list, so neither saw what the other added, and Slack answered none of
\* their calls with an error other than already_reacted
Racing(s1, s2) ==
    /\ s1 # s2 /\ PastGet(req[s1]) /\ PastGet(req[s2])
    /\ req[s1].user = req[s2].user
    /\ req[s1].had = req[s2].had /\ req[s1].reactions = req[s2].reactions
    /\ \A s \in {s1, s2} : \A k \in 1..Len(req[s].trace) : req[s].trace[k].res # "error"

\* C28: two applies of one user that run together on the item do not raise
\* on the already_reacted errors they cause each other; each tries every
\* reaction the user had not added, and in the end the user has every saved
\* reaction on the item, added by exactly one successful call.
C28_RaceIsTolerated ==
    \A s1, s2 \in Slots :
        Racing(s1, s2) =>
            /\ req[s1].pc # "raised" /\ req[s2].pc # "raised"
            /\ (req[s1].pc = "done" /\ req[s2].pc = "done") =>
                  /\ \A s \in {s1, s2} :
                        CallArgs(req[s].trace, "reactions_add")
                            = SelectSeq(req[s].reactions,
                                        LAMBDA x : x \notin req[s].had)
                  /\ Elems(req[s1].reactions) \subseteq reacted[req[s1].user]
                  /\ \A name \in Elems(req[s1].to_react) :
                        LET results == AddResultsFor(req[s1].trace, name)
                                          \o AddResultsFor(req[s2].trace, name)
                        IN  /\ Len(results) = 2
                            /\ Cardinality({k \in 1..2 : results[k].res = "ok"}) = 1
                            /\ Cardinality({k \in 1..2 :
                                               results[k].res = "already_reacted"}) = 1

\* two applies of a user ran together and each met an already_reacted
\* error of the other's making
C28_Witness ==
    \E s1, s2 \in Slots :
        /\ Racing(s1, s2)
        /\ req[s1].pc = "done" /\ req[s2].pc = "done"
        /\ req[s1].had = {} /\ Len(req[s1].to_react) = 2
        /\ \A s \in {s1, s2} :
              \E k \in 1..Len(req[s].trace) : req[s].trace[k].res = "already_reacted"

\* the reactions a response reports for its item: those of the message, the
\* file or the comment, none for another type or without a reactions entry
ReportedReactions(response) ==
    LET holder == IF response.type = "message" THEN <<response.message>>
                  ELSE IF response.type = "file" THEN <<response.file>>
                  ELSE IF response.type = "file_comment" THEN <<response.comment>>
                  ELSE <<>>
    IN  IF holder # <<>> /\ "reactions" \in DOMAIN holder[1]
        THEN holder[1].reactions ELSE <<>>

\* C29: the already-applied list of a user holds exactly the names of the
\* reported reactions whose users include the user, each once, for a
\* message, a file and a file comment; it is empty without reactions and for
\* a response of another type.
C29_UserReactionsOfEveryShape ==
    call.op = "get_user_reactions" =>
        LET rs   == ReportedReactions(call.candidates[1])
            mine == {k \in 1..Len(rs) : \E u \in call.snapshot : u \in rs[k].users}
        IN  /\ Elems(call.result) = {rs[k].name : k \in mine}
            /\ Len(call.result) = Cardinality(mine)

\* of the two reactions of a file comment, the one of the user was found
C29_Witness ==
    /\ call.op = "get_user_reactions"
    /\ call.snapshot = {"U2"}
    /\ call.candidates[1].type = "file_comment"
    /\ call.candidates[1].comment
          = [ts |-> "12345",
             reactions |-> << [name |-> <<"a">>, users |-> {"U1"}],
                              [name |-> <<"b">>, users |-> {"U1", "U2"}] >>]
    /\ call.result = << <<"b">> >>

\* is the list of user u the one a revocation in enterprise e and team t
\* is about
InContext(u, e, t) ==
    /\ t = TeamId
    /\ IF EnterpriseOf(u) = None THEN e = None ELSE e = EnterpriseOf(u)

\* C30: a tokens_revoked event deletes the stored lists of the users its
\* oauth entry names, in its enterprise and team, and no other; without an
\* oauth entry, or with an empty one, it deletes nothing; a named user
\* without a stored list makes no difference, and the handler does not
\* raise.
C30_RevocationDeletesTheListed ==
    [][RevocationStep =>
          LET e      == revocation'
              listed == IF e.has_oauth THEN Elems(e.oauth) ELSE {}
          IN  /\ ~e.raised
              /\ DOMAIN bucket' \subseteq DOMAIN bucket
              /\ \A u \in Users :
                    Stored(bucket', KeyOf(u))
                        = IF u \in listed /\ InContext(u, e.enterprise_id, e.team_id)
                          THEN <<>>
                          ELSE Stored(bucket, KeyOf(u))]_vars

\* an event without enterprise named U2, who has no list there, and then
\* U1: U1's accepted list is gone, U2's list in its enterprise is stored
C30_Witness ==
    /\ revocation.has_oauth /\ revocation.oauth = <<"U2", "U1">>
    /\ revocation.enterprise_id = None /\ revocation.team_id = TeamId
    /\ ~revocation.raised
    /\ accepted["U1"] # <<>> /\ KeyOf("U1") \notin DOMAIN bucket
    /\ KeyOf("U2") \in DOMAIN bucket


\* ------------------------------------------------------------------------
\* C31..C39
\* ------------------------------------------------------------------------

\* the last consume found its state in the bucket after the state's expiration
ExpiredWhenConsumed ==
    LET l == state_store.last
    IN  /\ l.held
        /\ l.at >= state_store.issued[l.state] + ExpirationSeconds

\* C31: an OAuth state is one-shot. No state makes consume return True
\* twice; consume returns True only for a state that was issued, at a time
\* before the state's expiration; a consume of an expired state that meets
\* no storage failure returns False and leaves no blob of the state; a
\* consume of a state that is not in the bucket (never issued, or consumed
\* before) and a consume that meets a storage failure return False; and no
\* consume raises.
C31_StateIsOneShot ==
    LET l == state_store.last
    IN  /\ ~state_store.twice
        /\ l.result =>
              /\ l.state \in DOMAIN state_store.issued
              /\ l.at < state_store.issued[l.state] + ExpirationSeconds
        /\ (l.state # None /\ ExpiredWhenConsumed /\ l.outcome = "ok") =>
              /\ ~l.result
              /\ l.state \notin DOMAIN state_store.blobs
        /\ (l.state # None /\ (~l.held \/ l.outcome # "ok")) => ~l.result
        /\ ~l.raised

\* a state that consume had returned True for was consumed once more, after
\* the other state was issued and outlived its expiration in the bucket
C31_Witness ==
    LET l == state_store.last
    IN  /\ l.state \in state_store.accepted
        /\ ~l.held
        /\ ~l.result
        /\ \E other \in DOMAIN state_store.blobs :
              state_store.now >= state_store.blobs[other] + ExpirationSeconds

\* the caller of a deletion of the installation store, and the entities the
\* deletion is to remove
DeletedFor ==
    LET c == installation_store.caller
    IN  {_key(d, c.enterprise_id, c.team_id, None, c.is_enterprise_install) :
            d \in {"bot", "installer"}}

\* C32: when async_delete_all has returned to its caller, the bot and the
\* workspace-level installer of the workspace are out of the store, as they
\* are after delete_all, and the find_bot and find_installation the caller
\* issues next both return None.
C32_DeletedWhenReturned ==
    LET c == installation_store.caller
    IN  c.via = "async_delete_all" =>
           /\ c.pc = "returned" => DeletedFor \cap installation_store.blobs = {}
           /\ c.pc = "found" => c.bot = None /\ c.installation = None

\* what one finished fetch can return: the emojis of the workspace, with
\* the standard emojis if their GET succeeded
CompleteResults == {WorkspaceEmojis, WorkspaceEmojis \cup StandardEmojis}

\* C33: the cache is the initial empty value or the complete result of one
\* finished fetch, and the result of every finished validation is the
\* candidates checked against one complete snapshot: the one its own fetch
\* returned, if it fetched.
C33_SnapshotIsWhole ==
    /\ all_emojis \in {{}} \cup CompleteResults
    /\ \A s \in Slots :
          LET r == req[s] IN
          (Validating(r) /\ r.pc = "done") =>
              \E snapshot \in CompleteResults :
                  /\ r.reactions = ValidReactions(ParseReactions(r.text), snapshot)
                  /\ r.fetched # <<>> => snapshot = r.fetched[1]

\* a save validated :x::a: against a snapshot without the standard emojis
\* while the other save was fetching, and a refresh of the updater then
\* replaced the snapshot by one with them
C33_Witness ==
    /\ req["r1"].pc = "done" /\ req["r1"].reactions = <<<<"a">>>>
    /\ req["r2"].pc = "fetch"
    /\ all_emojis = WorkspaceEmojis \cup StandardEmojis
    /\ \E t \in DOMAIN tasks : tasks[t].last = "ok"

\* C34: every value in the user data bucket is a list of at least 1 and at
\* most 23 short-codes, none of them empty and no two of them equal, after
\* every sequence of saves, displays, applies and revocations.
C34_StoredListsAreWellFormed ==
    \A key \in DOMAIN bucket :
        LET reactions == Split(bucket[key])
        IN  /\ Len(reactions) \in 1..23
            /\ \A i \in 1..Len(reactions) : reactions[i] # <<>>
            /\ \A i, j \in 1..Len(reactions) : reactions[i] = reactions[j] => i = j

\* a list of 23 short-codes is stored after a save of 24 candidates whose
\* last one was not in the snapshot, and after a revocation
C34_Witness ==
    /\ \E key \in DOMAIN bucket : Len(Split(bucket[key])) = 23
    /\ \E s \in Slots :
          /\ SaveDone(req[s])
          /\ Len(ParseReactions(req[s].text)) = 24
          /\ Replies(req[s]) = <<"saved">>
    /\ revocation.has_oauth /\ revocation.oauth # <<>>

\* the updater task t is not in an iteration and has been in one
IterationOver(t) ==
    /\ tasks[t].pc # "fetch"
    /\ tasks[t].last # "" \/ tasks[t].ended \in {"raised", "cancelled_fetch"}

\* C35, as stated: an iteration of the updater leaves the token of
\* app.client as it found it, whether the iteration ended by success, by a
\* SlackApiError of emoji.list or by cancellation during the fetch.
C35_IterationRestoresToken ==
    \A t \in DOMAIN tasks : IterationOver(t) => app_token = tasks[t].old_token

\* the last fetch of updater task t ended with a SlackApiError of emoji.list
RefreshFailed(t) == t \in DOMAIN tasks /\ tasks[t].last = "SlackApiError"

\* C36: where emoji.list is the only call that fails, no updater task ever
\* ends, and after an iteration that ended with a SlackApiError the snapshot
\* is eventually the whole directory (the emojis of the workspace and the
\* standard ones), provided the event loop runs the task and the emoji
\* directory does not fail for ever.
C36_ErrorDoesNotEndRefresh ==
    /\ [](\A t \in DOMAIN tasks : tasks[t].pc # "done")
    /\ (\E t \in TaskIds : RefreshFailed(t))
          ~> (all_emojis = WorkspaceEmojis \cup StandardEmojis)

\* an iteration ended with a SlackApiError while the snapshot, fetched when
\* the GET of the standard emojis failed, lacks the standard emojis
C36_Witness ==
    /\ \E t \in TaskIds : RefreshFailed(t) /\ tasks[t].pc = "sleep"
    /\ all_emojis = WorkspaceEmojis

C38_NoCandidatesNoCache ==
    [][ \A s \in Slots :
          (/\ req[s].kind = "command" /\ req[s].pc = "acked"
           /\ IsSave(req[s].has_text, req[s].text)
           /\ ParseReactions(req[s].text) = <<>>
           /\ req'[s] # req[s]) =>
              /\ req'[s].pc = "done"
              /\ req'[s].reactions = <<>>
              /\ Calls(req'[s].trace, "emoji_list") = <<>>
              /\ all_emojis' = all_emojis
              /\ emoji_task' = emoji_task
              /\ tasks' = tasks
      ]_vars

\* a save of the text "hi" is done without an emoji.list call at a time
\* when the updater task has ended, so that a text with a candidate would
\* have fetched
C38_Witness ==
    /\ \E s \in Slots :
          /\ req[s].kind = "command" /\ req[s].pc = "done"
          /\ req[s].text = TextPlain
          /\ req[s].reactions = <<>>
          /\ Calls(req[s].trace, "emoji_list") = <<>>
    /\ emoji_task # NoTask /\ tasks[emoji_task].pc = "done"

\* the names of the reactions.add calls of a request, in the order issued
AddedNames(r) == CallArgs(r.trace, "reactions_add")

\* C39: an apply issues at most one reactions.add call for each entry of
\* the saved list, hence at most 23, and none for a name that is not in the
\* list; no name is called twice, whether its call succeeded or failed; and
\* every apply that has issued a call reaches its end, whatever the calls
\* return.
C39_ApplyTerminates ==
    /\ [](\A s \in Slots :
             LET r     == req[s]
                 names == AddedNames(r)
             IN  r.kind = "shortcut" =>
                    /\ Len(names) <= Len(r.reactions)
                    /\ Len(names) <= 23
                    /\ \A i \in 1..Len(names) :
                          \E k \in 1..Len(r.reactions) : names[i] = r.reactions[k]
                    /\ \A i, j \in 1..Len(names) : names[i] = names[j] => i = j)
    /\ \A s \in Slots :
          (req[s].kind = "shortcut" /\ req[s].pc \in {"reactions_add", "raised"})
             ~> (req[s].kind = "shortcut" /\ req[s].pc = "done")

\* an apply of a list of 23 reactions is done after 23 calls, one of which
\* failed
C39_Witness ==
    \E s \in Slots :
        /\ req[s].kind = "shortcut" /\ req[s].pc = "done"
        /\ Len(req[s].reactions) = 23
        /\ Len(AddedNames(req[s])) = 23
        /\ \E k \in 1..Len(req[s].trace) :
              req[s].trace[k].op = "reactions_add" /\ req[s].trace[k].res = "error"

====
